---------------------------- MODULE Spec2Model ----------------------------
(***************************************************************************)
(* Model of the answer-sheet (gabarito) recognition pipeline of            *)
(* src/src/image_processor.py: process_gabarito_image and the stages it    *)
(* calls (align_image, detect_bubbles with reconstruct_missing_bubbles,    *)
(* sort_bubbles_by_columns, extract_answers).                              *)
(*                                                                         *)
(* An image is represented by what the vision library extracts from it:    *)
(* the marker contours that survive the filters of detect_markers, and     *)
(* the blobs of the thresholded sheet (bounding box, contour area, number  *)
(* of foreground pixels).  Sheets are laid out as gabarito_generator_v2    *)
(* draws them, at 10 pixels per millimetre.                                *)
(***************************************************************************)
EXTENDS Integers, Sequences, FiniteSets, TLC

VARIABLES
    image,               \* the input image (see Image below)
    num_questions,       \* the question-count hint; 0 stands for None
    pc,                  \* position of process_gabarito_image
    bubbles,             \* question_cnts returned by detect_bubbles
    sorted_bubbles,      \* result of sort_bubbles_by_columns
    respostas_marcadas,  \* answers recorded so far by extract_answers
    q_index,             \* extract_answers' loop index q (enumerate), 0-based
    result,              \* the value returned by process_gabarito_image
    stages,              \* history: the stages entered, in order
    first_result         \* history: what the previous call on this input returned

\* align_image (lines 98-112)
VARIABLES
    centres,             \* centres of the marker contours (lines 77-84)
    points,              \* the list get_marker_points returns
    rect,                \* order_points' result inside four_point_transform
    warped_size          \* <<maxWidth, maxHeight>> of the warped image

\* the ImageCache instance of cache_manager.py and the requests using it
VARIABLES
    cache,               \* self.cache: key -> stored result
    access_times,        \* self.access_times, in dict (insertion) order
    hit_count,           \* self._hit_count
    miss_count,          \* self._miss_count
    now,                 \* the clock read by time.time()
    requests,            \* the process_image calls in progress, per thread
    recency,             \* history: the cached keys, least recently used first
    last_set,            \* history: key -> the result given to its latest set
    get_calls            \* history: the number of calls of get

\* /api/compare (server.py lines 376-431)
VARIABLES
    student_answers,     \* data['student_answers']: question -> answer
    answer_key,          \* data['answer_key']: question -> answer
    comparison           \* the body of the response

\* reconstruct_missing_bubbles inside detect_bubbles (lines 166-187)
VARIABLES
    found_cnts,          \* the candidates that passed the filters (line 162)
    reconstructed,       \* what reconstruct_missing_bubbles did: [raised, cnts]
    detected             \* what detect_bubbles did then: [raised, cnts]

alignVars == <<centres, points, rect, warped_size>>
cacheVars == <<cache, access_times, hit_count, miss_count, now, requests,
               recency, last_set, get_calls>>
compareVars == <<student_answers, answer_key, comparison>>
reconVars == <<found_cnts, reconstructed, detected>>

vars == <<image, num_questions, pc, bubbles, sorted_bubbles,
          respostas_marcadas, q_index, result, stages, first_result,
          alignVars, cacheVars, compareVars, reconVars>>

\* what a step of one call of process_gabarito_image leaves alone
outsideCall == <<first_result, alignVars, cacheVars, compareVars, reconVars>>

\* align_image is not being looked at
AlignIdle ==
    /\ centres = <<>>
    /\ points = <<>>
    /\ rect = <<>>
    /\ warped_size = <<0, 0>>

\* ImageCache.__init__ (lines 29-37), no request in progress
CacheIdle ==
    /\ cache = <<>>
    /\ access_times = <<>>
    /\ hit_count = 0
    /\ miss_count = 0
    /\ now = 0
    /\ requests = <<>>
    /\ recency = <<>>
    /\ last_set = <<>>
    /\ get_calls = 0

\* no /api/compare request is being looked at
CompareIdle ==
    /\ student_answers = <<>>
    /\ answer_key = <<>>
    /\ comparison = <<>>

\* detect_bubbles is not being looked at on its own
ReconIdle ==
    /\ found_cnts = <<>>
    /\ reconstructed = <<>>
    /\ detected = <<>>

-----------------------------------------------------------------------------
(* Program constants.                                                      *)

\* config.py, IMAGE_PROCESSING_CONFIG['alignment']
min_markers == 3
max_markers == 4
\* config.py, IMAGE_PROCESSING_CONFIG['bubble_detection']['expected_count']
expected_count_default == 200
\* detect_bubbles: expected_count = num_questions * 5; extract_answers: groups of 5
AlternativesPerQuestion == 5
\* detect_bubbles: len(question_cnts) > expected_count * 0.9, as 9/10
ToleranceNum == 9
ToleranceDen == 10
\* sort_bubbles_by_columns: chunk_size = 75; if i + chunk_size >= 150: chunk_size = 50
chunk_size_first == 75
chunk_switch_at == 150
chunk_size_last == 50
\* extract_answers: base_threshold = 1.15 as 115/100, mean_score * 1.1 as 11/10,
\* max_score > 50
BaseThresholdNum == 115
BaseThresholdDen == 100
MeanFactorNum == 11
MeanFactorDen == 10
MinAbsoluteScore == 50
\* reconstruct_missing_bubbles: dist > median_step * 1.5, as 3/2
GapFactorNum == 3
GapFactorDen == 2

alternativas == <<"A", "B", "C", "D", "E">>
NAO_MARCADA == "NAO MARCADA"

\* result before process_gabarito_image returns
NoResult == [pending |-> TRUE]

-----------------------------------------------------------------------------
(* Sheet layout, from GabaritoGeneratorV2._draw_questions, in pixels at    *)
(* 10 px/mm (1 cm = 100 px).                                               *)

left_margin == 130
column_spacing == 607
bubble_offset == 140
bubble_spacing == 60
bubble_size == 50
question_spacing == 60
start_y == 350
\* contour area of a printed circle of diameter bubble_size (pi * 25 * 25)
bubble_area == 1963

questions_per_column(n) == (n + 2) \div 3

\* column (0..2) and row of printed question q on a sheet of n questions
QuestionCol(q, n) == (q - 1) \div questions_per_column(n)
QuestionRow(q, n) == (q - 1) % questions_per_column(n)

\* The blob of alternative a (0..4) of printed question q on a sheet of n
\* questions: bounding box, contour area, and the printed identity.
PrintedBubble(q, a, n) ==
    [x    |-> left_margin + QuestionCol(q, n) * column_spacing
              + bubble_offset + a * bubble_spacing - bubble_size \div 2,
     y    |-> start_y + QuestionRow(q, n) * question_spacing - bubble_size \div 2,
     w    |-> bubble_size,
     h    |-> bubble_size,
     area |-> bubble_area,
     q    |-> q,
     a    |-> a]

-----------------------------------------------------------------------------
(* Library behaviour used by the stages.                                   *)

Min(a, b) == IF a <= b THEN a ELSE b
Abs(a) == IF a < 0 THEN -a ELSE a

SetMin(S) == CHOOSE v \in S : \A u \in S : v <= u
SetMax(S) == CHOOSE v \in S : \A u \in S : v >= u

KeysOf(s, key) == {s[i][key] : i \in 1..Len(s)}

\* the elements of s whose key is k, in their order in s
WithKey(s, key, k) ==
    LET HasKey(e) == e[key] = k
    IN  SelectSeq(s, HasKey)

\* Python's sorted()/list.sort() are stable: the elements in ascending order
\* of their key, those of equal key in their original order.
RECURSIVE AscByKeys(_, _, _)
AscByKeys(s, key, ks) ==
    IF ks = {} THEN <<>>
    ELSE WithKey(s, key, SetMin(ks)) \o AscByKeys(s, key, ks \ {SetMin(ks)})

SortedAsc(s, key) == AscByKeys(s, key, KeysOf(s, key))

\* sorted(..., reverse=True) keeps the original order of equal keys.
RECURSIVE DescByKeys(_, _, _)
DescByKeys(s, key, ks) ==
    IF ks = {} THEN <<>>
    ELSE WithKey(s, key, SetMax(ks)) \o DescByKeys(s, key, ks \ {SetMax(ks)})

SortedDesc(s, key) == DescByKeys(s, key, KeysOf(s, key))

\* imutils.contours.sort_contours(cnts, method): sorts by the bounding box's
\* x ("left-to-right") or y ("top-to-bottom"); it raises ValueError on an
\* empty list (zip(*sorted(...)) has nothing to unpack), which callers model
\* by testing for the empty list first.
sort_contours(cnts, method) ==
    SortedAsc(cnts, IF method = "top-to-bottom" THEN "y" ELSE "x")

\* sum of s[lo..hi], and of an integer sequence
RECURSIVE SumRange(_, _, _)
SumRange(s, lo, hi) ==
    IF lo > hi THEN 0
    ELSE IF lo = hi THEN s[lo]
    ELSE SumRange(s, lo, (lo + hi) \div 2) + SumRange(s, (lo + hi) \div 2 + 1, hi)

SumSeq(s) == SumRange(s, 1, Len(s))

\* integers in ascending order (for np.median)
IntInsert(s, v) ==
    LET p == Cardinality({i \in 1..Len(s) : s[i] <= v})
    IN  SubSeq(s, 1, p) \o <<v>> \o SubSeq(s, p + 1, Len(s))

RECURSIVE IntSorted(_)
IntSorted(s) ==
    IF s = <<>> THEN <<>> ELSE IntInsert(IntSorted(Tail(s)), s[1])

\* twice np.median(s), s non-empty: the middle element, or the mean of the
\* two middle elements
Median2(s) ==
    LET t == IntSorted(s)
        n == Len(t)
    IN  IF n % 2 = 1 THEN 2 * t[(n + 1) \div 2]
        ELSE t[n \div 2] + t[n \div 2 + 1]

\* Python's round(p / q) for p >= 0, q > 0: to nearest, ties to even
RoundHalfEven(p, q) ==
    LET f == p \div q
        r == p % q
    IN  IF 2 * r > q THEN f + 1
        ELSE IF 2 * r < q THEN f
        ELSE IF f % 2 = 0 THEN f ELSE f + 1


-----------------------------------------------------------------------------
(* The image.                                                              *)
(*   sheet    number of questions printed on the photographed sheet        *)
(*   inks     inks[q][a+1]: foreground pixels of the thresholded image     *)
(*            inside the bubble of alternative a of printed question q     *)
(*   missed   the printed bubbles <<q, a>> whose contour fails the size    *)
(*            and aspect filters of detect_bubbles (lost to noise)         *)
(*   markers  areas of the marker contours that pass detect_markers'       *)
(*            filters, in findContours order                               *)

\* cv2.findContours + the size/aspect filter of detect_bubbles: the printed
\* bubbles that were not missed.  OpenCV reports contours bottom-up, so the
\* list is in reverse reading order.
AllPrinted(n) ==
    [i \in 1..(AlternativesPerQuestion * n) |->
        \* k counts the bubbles in printed order, from the last one down
        LET k == AlternativesPerQuestion * n - i
        IN  PrintedBubble(k \div AlternativesPerQuestion + 1,
                          k % AlternativesPerQuestion, n)]

FoundBubbles(img) ==
    LET Found(b) == <<b.q, b.a>> \notin img.missed
    IN  SelectSeq(AllPrinted(img.sheet), Found)

\* cv2.countNonZero(thresh & mask of contour c): the foreground pixels of the
\* printed bubbles whose centre lies inside c.
InsideContour(b, c) ==
    /\ c.x <= b.x + b.w \div 2
    /\ b.x + b.w \div 2 < c.x + c.w
    /\ c.y <= b.y + b.h \div 2
    /\ b.y + b.h \div 2 < c.y + c.h

PrintedInside(img, c) ==
    {qa \in (1..img.sheet) \X (0..(AlternativesPerQuestion - 1)) :
        InsideContour(PrintedBubble(qa[1], qa[2], img.sheet), c)}

RECURSIVE InkOf(_, _)
InkOf(img, qas) ==
    IF qas = {} THEN 0
    ELSE LET qa == CHOOSE e \in qas : TRUE
         IN  img.inks[qa[1]][qa[2] + 1] + InkOf(img, qas \ {qa})

countNonZero(img, c) == InkOf(img, PrintedInside(img, c))


-----------------------------------------------------------------------------
(* reconstruct_missing_bubbles                                             *)

\* A running row position last_y is the rational num/den; -1 is the code's
\* "no row yet" marker.
NoLastY == <<-1, 1>>
IsNoLastY(last) == last[1] = -last[2]

RECURSIVE Gcd(_, _)
Gcd(a, b) == IF b = 0 THEN a ELSE Gcd(b, a % b)

Reduced(num, den) ==
    LET g == Gcd(Abs(num), den)
    IN  IF g = 0 THEN <<num, den>> ELSE <<num \div g, den \div g>>

\* last_y = (last_y * len(current_row) + y) / (len(current_row) + 1), with
\* current_row already holding the new candidate (len = n)
NextLastY(last, n, y) ==
    IF IsNoLastY(last) THEN <<y, 1>>
    ELSE Reduced(last[1] * n + y * last[2], last[2] * (n + 1))

\* abs(y - last_y) < y_threshold, y_threshold = avg_h * 0.5 = sum_h / (2 * count)
SameRow(y, last, sum_h, count) ==
    Abs(y * last[2] - last[1]) * 2 * count < sum_h * last[2]

\* lines 212-221 within one row: the index of the last candidate of the row
\* that starts at s[first]; i is the candidate looked at, last_y the running
\* position after s[first..i-1]
RECURSIVE RowEnd(_, _, _, _, _, _)
RowEnd(s, first, i, last_y, sum_h, count) ==
    IF i > Len(s) THEN Len(s)
    ELSE IF IsNoLastY(last_y) \/ SameRow(s[i].y, last_y, sum_h, count)
         THEN RowEnd(s, first, i + 1, NextLastY(last_y, i - first + 1, s[i].y),
                     sum_h, count)
         ELSE i - 1

\* lines 204-223: the rows, each a sequence of candidates.  The first row
\* starts with last_y = -1, every later one with last_y = y of its first
\* candidate (line 221).
RECURSIVE GroupRows(_, _, _, _)
GroupRows(s, first, sum_h, count) ==
    IF first > Len(s) THEN <<>>
    ELSE LET last == IF first = 1
                     THEN RowEnd(s, first, first, NoLastY, sum_h, count)
                     ELSE RowEnd(s, first, first + 1, <<s[first].y, 1>>,
                                 sum_h, count)
         IN  <<SubSeq(s, first, last)>> \o GroupRows(s, last + 1, sum_h, count)

\* lines 275-288: the synthetic rectangular contour number m (0-based) after
\* the candidate curr; its bounding box spans new_x .. new_x + new_w inclusive.
SyntheticBubble(curr, median_step2, avg_width2, m) ==
    LET new_w == avg_width2 \div 2
        new_h == curr.h
    IN  [x    |-> (2 * curr.x + median_step2 * (m + 1)) \div 2,
         y    |-> curr.y,
         w    |-> new_w + 1,
         h    |-> new_h + 1,
         area |-> new_w * new_h,
         q    |-> 0,
         a    |-> m]

RECURSIVE SyntheticRun(_, _, _, _, _)
SyntheticRun(curr, median_step2, avg_width2, m, missing_count) ==
    IF m >= missing_count THEN <<>>
    ELSE <<SyntheticBubble(curr, median_step2, avg_width2, m)>>
         \o SyntheticRun(curr, median_step2, avg_width2, m + 1, missing_count)

\* lines 265-288 for the pair row[i], row[i + 1]: dist > median_step * 1.5
GapTooWide(dist, median_step2) ==
    2 * GapFactorDen * dist > GapFactorNum * median_step2

\* dist / median_step with median_step = 0 is infinite and int(round(inf))
\* raises OverflowError
GapRaises(dist, median_step2) ==
    GapTooWide(dist, median_step2) /\ median_step2 = 0

MissingCount(dist, median_step2) == RoundHalfEven(2 * dist, median_step2) - 1

\* lines 257-288: the row with its gaps filled; row is sorted by x
RECURSIVE FillRow(_, _, _, _)
FillRow(row, i, median_step2, avg_width2) ==
    IF i > Len(row) THEN <<>>
    ELSE <<row[i]>>
         \o (IF i < Len(row)
                /\ GapTooWide(row[i + 1].x - row[i].x, median_step2)
                /\ MissingCount(row[i + 1].x - row[i].x, median_step2) > 0
             THEN SyntheticRun(row[i], median_step2, avg_width2, 0,
                      MissingCount(row[i + 1].x - row[i].x, median_step2))
             ELSE <<>>)
         \o FillRow(row, i + 1, median_step2, avg_width2)

Widths(row) == [i \in 1..Len(row) |-> row[i].w]
Gaps(row) == [i \in 1..(Len(row) - 1) |-> row[i + 1].x - row[i].x]

\* a row of fewer than 2 candidates is taken for noise and left out
ProcessRow_DropsNoise(unsorted_row) ==
    LET row == SortedAsc(unsorted_row, "x")
    IN  IF Len(row) < 2 THEN [raised |-> FALSE, cnts |-> <<>>]
        ELSE LET median_step2 == Median2(Gaps(row))
                 avg_width2 == Median2(Widths(row))
             IN  IF \E i \in 1..(Len(row) - 1) :
                        GapRaises(row[i + 1].x - row[i].x, median_step2)
                 THEN [raised |-> TRUE, cnts |-> <<>>]
                 ELSE [raised |-> FALSE,
                       cnts |-> FillRow(row, 1, median_step2, avg_width2)]

\* lines 228-290 for one row: [raised, cnts]
ProcessRow(unsorted_row) ==
    LET row == SortedAsc(unsorted_row, "x")
    IN  IF Len(row) < 2 THEN [raised |-> FALSE, cnts |-> row]
        ELSE LET median_step2 == Median2(Gaps(row))
                 avg_width2 == Median2(Widths(row))
             IN  IF \E i \in 1..(Len(row) - 1) :
                        GapRaises(row[i + 1].x - row[i].x, median_step2)
                 THEN [raised |-> TRUE, cnts |-> <<>>]
                 ELSE [raised |-> FALSE,
                       cnts |-> FillRow(row, 1, median_step2, avg_width2)]

RECURSIVE ProcessRows(_, _)
ProcessRows(rows, i) ==
    IF i > Len(rows) THEN [raised |-> FALSE, cnts |-> <<>>]
    ELSE LET head == ProcessRow(rows[i])
             rest == ProcessRows(rows, i + 1)
         IN  IF head.raised \/ rest.raised THEN [raised |-> TRUE, cnts |-> <<>>]
             ELSE [raised |-> FALSE, cnts |-> head.cnts \o rest.cnts]

Heights(cnts) == [i \in 1..Len(cnts) |-> cnts[i].h]

\* The rows built by lines 198-223 (cnts non-empty).
RowsOf(cnts) ==
    GroupRows(SortedAsc(cnts, "y"), 1, SumSeq(Heights(cnts)), Len(cnts))

\* reconstruct_missing_bubbles(cnts): [raised, cnts]
reconstruct_missing_bubbles(cnts) ==
    IF cnts = <<>> THEN [raised |-> FALSE, cnts |-> <<>>]
    ELSE ProcessRows(RowsOf(cnts), 1)


-----------------------------------------------------------------------------
(* detect_markers (lines 65-71), on the marker contours that passed the    *)
(* filters: [raised, markers]                                              *)

\* exactly min_markers markers are refused as well
detect_markers_Strict(marker_contours) ==
    IF Len(marker_contours) <= min_markers
    THEN [raised |-> TRUE, markers |-> <<>>]
    ELSE IF Len(marker_contours) > max_markers
    THEN [raised |-> FALSE,
          markers |-> SubSeq(SortedDesc(marker_contours, "area"), 1, max_markers)]
    ELSE [raised |-> FALSE, markers |-> marker_contours]

detect_markers(marker_contours) ==
    IF Len(marker_contours) < min_markers
    THEN [raised |-> TRUE, markers |-> <<>>]
    ELSE IF Len(marker_contours) > max_markers
    THEN [raised |-> FALSE,
          markers |-> SubSeq(SortedDesc(marker_contours, "area"), 1, max_markers)]
    ELSE [raised |-> FALSE, markers |-> marker_contours]

-----------------------------------------------------------------------------
(* detect_bubbles (lines 120-189)                                          *)

\* lines 121-124; "if num_questions:" is false for None and for 0
ExpectedCount(hint) ==
    IF hint # 0 THEN hint * AlternativesPerQuestion ELSE expected_count_default

\* an error of the reconstruction leaves nothing to go on with
AfterReconstruction_Emptied(question_cnts) ==
    reconstruct_missing_bubbles(question_cnts).cnts

\* lines 168-172: an error of the reconstruction is logged and question_cnts
\* keeps its value
AfterReconstruction(question_cnts) ==
    LET r == reconstruct_missing_bubbles(question_cnts)
    IN  IF r.raised THEN question_cnts ELSE r.cnts

\* the candidates of smallest area are kept
Trimmed_Smallest(question_cnts, expected) ==
    IF Len(question_cnts) >= expected
    THEN SubSeq(SortedAsc(question_cnts, "area"), 1, expected)
    ELSE question_cnts

\* the candidate list is never trimmed
Trimmed_Never(question_cnts, expected) == question_cnts

\* lines 174-176
Trimmed(question_cnts, expected) ==
    IF Len(question_cnts) >= expected
    THEN SubSeq(SortedDesc(question_cnts, "area"), 1, expected)
    ELSE question_cnts

\* a multiple of 5 is accepted without a hint as well
CountAccepted_AnyHint(n, expected, hint) ==
    \/ n = expected
    \/ n > 0 /\ n % AlternativesPerQuestion = 0
    \/ n * ToleranceDen > expected * ToleranceNum

\* lines 178-187: TRUE when detect_bubbles does not raise for a final count n.
\* n > expected * 0.9 is compared as n * 10 > expected * 9.
CountAccepted(n, expected, hint) ==
    \/ n = expected
    \/ hint # 0 /\ n > 0 /\ n % AlternativesPerQuestion = 0
    \/ n * ToleranceDen > expected * ToleranceNum

\* detect_bubbles(aligned_image, num_questions): [raised, cnts]
detect_bubbles(img, hint) ==
    LET expected == ExpectedCount(hint)
        question_cnts == Trimmed(AfterReconstruction(FoundBubbles(img)), expected)
    IN  IF CountAccepted(Len(question_cnts), expected, hint)
        THEN [raised |-> FALSE, cnts |-> question_cnts]
        ELSE [raised |-> TRUE, cnts |-> <<>>]

-----------------------------------------------------------------------------
(* sort_bubbles_by_columns (lines 294-310)                                 *)

\* line 306-307: the chunk size used from the next iteration on
NextChunkSize(i, chunk_size) ==
    IF i + chunk_size >= chunk_switch_at THEN chunk_size_last ELSE chunk_size

\* lines 302-307.  range(0, len, chunk_size) is built once, with the first
\* chunk size as its step; the slice uses the current chunk size.  i is the
\* 0-based start of the slice.
RECURSIVE ChunkLoop(_, _, _)
ChunkLoop(question_cnts, i, chunk_size) ==
    IF i >= Len(question_cnts) THEN <<>>
    ELSE sort_contours(SubSeq(question_cnts, i + 1,
                              Min(i + chunk_size, Len(question_cnts))),
                       "top-to-bottom")
         \o ChunkLoop(question_cnts, i + chunk_size_first,
                      NextChunkSize(i, chunk_size))

\* bubbles non-empty (sort_contours raises on an empty list)
sort_bubbles_by_columns(bs) ==
    ChunkLoop(sort_contours(bs, "left-to-right"), 0, chunk_size_first)

-----------------------------------------------------------------------------
(* extract_answers (lines 327-405), one iteration of its loop              *)

\* line 328: the bubbles of iteration q (0-based), i = 5 * q, left to right
QuestionGroup(sorted, q) ==
    sort_contours(SubSeq(sorted, AlternativesPerQuestion * q + 1,
                         Min(AlternativesPerQuestion * q + AlternativesPerQuestion,
                             Len(sorted))),
                  "left-to-right")

\* lines 331-337
Pontuacoes(img, group) == [j \in 1..Len(group) |-> countNonZero(img, group[j])]

\* line 343: sorted(pontuacoes, reverse=True)
RECURSIVE SortedScores(_)
SortedScores(s) ==
    IF s = <<>> THEN <<>>
    ELSE LET t == SortedScores(Tail(s))
             p == Cardinality({i \in 1..Len(t) : t[i] >= s[1]})
         IN  SubSeq(t, 1, p) \o <<s[1]>> \o SubSeq(t, p + 1, Len(t))

MaxScore(pontuacoes) == SortedScores(pontuacoes)[1]
SecondScore(pontuacoes) ==
    IF Len(pontuacoes) > 1 THEN SortedScores(pontuacoes)[2] ELSE 0

\* a ratio of exactly the threshold passes
RatioAbove_OrEqual(max_score, second_score) ==
    IF second_score > 0
    THEN max_score * BaseThresholdDen >= BaseThresholdNum * second_score
    ELSE TRUE

\* line 356 and 365: ratio > base_threshold, ratio = max / second or infinity
RatioAbove(max_score, second_score) ==
    IF second_score > 0
    THEN max_score * BaseThresholdDen > BaseThresholdNum * second_score
    ELSE TRUE

\* line 366: max_score > mean_score * 1.1, mean_score = sum / len
AboveMean(max_score, pontuacoes) ==
    max_score * MeanFactorDen * Len(pontuacoes)
        > MeanFactorNum * SumSeq(pontuacoes)

\* a maximum of exactly the floor passes
AboveFloor_OrEqual(max_score) == max_score >= MinAbsoluteScore

\* line 367
AboveFloor(max_score) == max_score > MinAbsoluteScore

\* lines 364-368
is_marked(pontuacoes) ==
    /\ RatioAbove(MaxScore(pontuacoes), SecondScore(pontuacoes))
    /\ AboveMean(MaxScore(pontuacoes), pontuacoes)
    /\ AboveFloor(MaxScore(pontuacoes))

\* line 371: pontuacoes.index(max_score), 1-based here
IndiceMarcado(pontuacoes) ==
    CHOOSE j \in 1..Len(pontuacoes) :
        /\ pontuacoes[j] = MaxScore(pontuacoes)
        /\ \A k \in 1..(j - 1) : pontuacoes[k] # MaxScore(pontuacoes)

\* lines 370-389
Resposta(pontuacoes) ==
    IF is_marked(pontuacoes) THEN alternativas[IndiceMarcado(pontuacoes)]
    ELSE NAO_MARCADA

\* the answer is recorded under the 0-based loop index
Registrar_ZeroBased(respostas, q, resposta) ==
    [k \in DOMAIN respostas \cup {q} |->
        IF k = q THEN resposta ELSE respostas[k]]

\* line 401: respostas_marcadas[q + 1] = resposta
Registrar(respostas, q, resposta) ==
    [k \in DOMAIN respostas \cup {q + 1} |->
        IF k = q + 1 THEN resposta ELSE respostas[k]]


-----------------------------------------------------------------------------
(* process_gabarito_image (lines 407-440)                                  *)

\* lines 428-433; result_image, the annotated copy, is left out
SuccessValue(answers) ==
    [success |-> TRUE, answers |-> answers,
     total_questions |-> Cardinality(DOMAIN answers)]

\* the failure value carries the answers recorded so far
FailureValue_WithAnswers(kind, found) ==
    [success |-> FALSE, error |-> <<kind, found>>,
     answers |-> respostas_marcadas]

\* lines 435-440: str(e) is modelled by the kind of error and the number it
\* reports
FailureValue(kind, found) ==
    [success |-> FALSE, error |-> <<kind, found>>]

\* a stage that raises does not end the run
AfterStage_GoesOn(raised, next) == next

\* the try/except of lines 411 and 435: a stage that raises ends the run,
\* otherwise control goes on to the next stage
AfterStage(raised, next) == IF raised THEN "failed" ELSE next

\* the stage is entered (history)
Enter(stage) ==
    IF stages # <<>> /\ stages[Len(stages)] = stage THEN stages
    ELSE Append(stages, stage)

\* line 415: align_image.  detect_markers decides; the perspective transform
\* itself produces the aligned image whose blobs image describes.
Align ==
    /\ pc = "align"
    /\ stages' = Enter("align")
    /\ pc' = AfterStage(detect_markers(image.markers).raised, "detect")
    /\ result' = IF detect_markers(image.markers).raised
                 THEN FailureValue("markers", Len(image.markers))
                 ELSE result
    /\ UNCHANGED <<image, num_questions, bubbles, sorted_bubbles,
                   respostas_marcadas, q_index>>
    /\ UNCHANGED outsideCall

\* line 418: detect_bubbles
DetectBubbles ==
    /\ pc = "detect"
    /\ stages' = Enter("detect")
    /\ LET d == detect_bubbles(image, num_questions)
       IN  /\ pc' = AfterStage(d.raised, "sort")
           /\ bubbles' = d.cnts
           /\ result' = IF d.raised
                        THEN FailureValue("bubbles", ExpectedCount(num_questions))
                        ELSE result
    /\ UNCHANGED <<image, num_questions, sorted_bubbles, respostas_marcadas, q_index>>
    /\ UNCHANGED outsideCall

\* line 421: sort_bubbles_by_columns; sort_contours raises on an empty list
SortBubbles ==
    /\ pc = "sort"
    /\ stages' = Enter("sequence")
    /\ pc' = AfterStage(bubbles = <<>>, "extract")
    /\ sorted_bubbles' = IF bubbles = <<>> THEN <<>>
                         ELSE sort_bubbles_by_columns(bubbles)
    /\ result' = IF bubbles = <<>> THEN FailureValue("sort", 0) ELSE result
    /\ UNCHANGED <<image, num_questions, bubbles, respostas_marcadas, q_index>>
    /\ UNCHANGED outsideCall

\* line 424, lines 327-401: one iteration of extract_answers' loop
ExtractQuestion ==
    /\ pc = "extract"
    /\ AlternativesPerQuestion * q_index < Len(sorted_bubbles)
    /\ stages' = Enter("extract")
    /\ respostas_marcadas' =
           Registrar(respostas_marcadas, q_index,
                     Resposta(Pontuacoes(image, QuestionGroup(sorted_bubbles, q_index))))
    /\ q_index' = q_index + 1
    /\ UNCHANGED <<image, num_questions, pc, bubbles, sorted_bubbles, result>>
    /\ UNCHANGED outsideCall

\* a vision-library call of an iteration (np.zeros, cv2.drawContours,
\* cv2.bitwise_and, lines 333-336) raises, e.g. for lack of memory: the
\* answers recorded so far are lost with extract_answers' frame
ExtractError ==
    /\ pc = "extract"
    /\ AlternativesPerQuestion * q_index < Len(sorted_bubbles)
    /\ stages' = Enter("extract")
    /\ pc' = AfterStage(TRUE, "extract")
    /\ result' = FailureValue("extract", q_index + 1)
    /\ UNCHANGED <<image, num_questions, bubbles, sorted_bubbles,
                   respostas_marcadas, q_index>>
    /\ UNCHANGED outsideCall

\* lines 405, 426-433: the loop is over, the success value is returned
ReturnSuccess ==
    /\ pc = "extract"
    /\ AlternativesPerQuestion * q_index >= Len(sorted_bubbles)
    /\ stages' = Enter("extract")
    /\ pc' = "done"
    /\ result' = SuccessValue(respostas_marcadas)
    /\ UNCHANGED <<image, num_questions, bubbles, sorted_bubbles,
                   respostas_marcadas, q_index>>
    /\ UNCHANGED outsideCall

-----------------------------------------------------------------------------
(* Inputs.                                                                 *)

\* bounds of the pipeline's inputs
MaxSheet == 3
MaxHint == 3
MaxPattern == 1
\* bound of the sheets given to the sequencing and extraction stages alone
MaxSeqSheet == 10

\* fill scores of one question, A..E
InkProfiles ==
    << <<20, 20, 200, 25, 20>>,
       <<100, 98, 95, 97, 99>>,
       <<0, 0, 0, 0, 0>>,
       <<116, 100, 20, 20, 20>>,
       <<20, 300, 25, 20, 20>>,
       <<115, 100, 20, 20, 20>>,
       <<20, 25, 20, 230, 20>>,
       <<0, 0, 0, 0, 51>> >>

\* fill pattern p of a sheet of n questions
InksOf(n, p) ==
    [k \in 1..n |-> InkProfiles[((k - 1 + p) % Len(InkProfiles)) + 1]]

\* marker contours found on a photograph: the four printed squares
\* (0.4 cm, 40 x 40 px) and a larger square blob
FoundMarkers ==
    <<[area |-> 1600], [area |-> 1580], [area |-> 1610], [area |-> 1590],
      [area |-> 2500]>>
MarkerChoices == {SubSeq(FoundMarkers, 1, k) : k \in 2..5}

\* bubbles lost to detection noise on a sheet of n questions: none, the last
\* bubble of the sheet, a bubble inside the first question, or both
MissedChoices(n) == {{}, {<<n, 4>>}, {<<1, 2>>}, {<<1, 2>>, <<n, 4>>}}

\* larger sheets, each with its hint: 23 questions without a hint, 41 with
BigCases == {<<23, 0>>, <<41, 41>>}

ImageOf(n, p, ms, mk) ==
    [sheet |-> n, inks |-> InksOf(n, p), missed |-> ms, markers |-> mk]

InitLocals ==
    /\ bubbles = <<>>
    /\ sorted_bubbles = <<>>
    /\ respostas_marcadas = <<>>
    /\ q_index = 0
    /\ result = NoResult
    /\ stages = <<>>

Init ==
    /\ \/ \E n \in 1..MaxSheet, h \in 0..MaxHint, p \in 0..MaxPattern,
            mk \in MarkerChoices :
            \E ms \in MissedChoices(n) :
                /\ image = ImageOf(n, p, ms, mk)
                /\ num_questions = h
       \/ \E c \in BigCases :
            /\ image = ImageOf(c[1], 0, {}, SubSeq(FoundMarkers, 1, max_markers))
            /\ num_questions = c[2]
    /\ pc = "align"
    /\ InitLocals
    /\ first_result = NoResult
    /\ AlignIdle
    /\ CacheIdle
    /\ CompareIdle
    /\ ReconIdle

Next ==
    \/ Align
    \/ DetectBubbles
    \/ SortBubbles
    \/ ExtractQuestion
    \/ ExtractError
    \/ ReturnSuccess

Spec == Init /\ [][Next]_vars

\* where control is: the stage, and the iteration of extract_answers' loop
control == <<pc, q_index>>

\* control moves on
Advance ==
    /\ pc \notin {"done", "failed"}
    /\ pc' \in {"detect", "sort", "extract", "done", "failed"}
    /\ q_index' \in {q_index, q_index + 1}

\* process_gabarito_image is one synchronous call (lines 407-440): no step of
\* it waits for anything, so as long as it has not returned, control moves on
FairSpec == Spec /\ WF_control(Advance)


-----------------------------------------------------------------------------
(* The sequencing and extraction stages on their own: sort_bubbles_by_     *)
(* columns and extract_answers applied to a given candidate list, namely   *)
(* every bubble of a printed sheet at its printed position, or the bubbles *)
(* of one question with arbitrary fill scores.                             *)

\* the fill scores a bubble of the one-question inputs may have
ScoreValues == {0, 50, 51, 100, 115, 116}

\* sheets larger than MaxSeqSheet given to the two stages
BigSeqSheets == {41}

\* the fill scores g of the first Len(g) bubbles of a question; the other
\* bubbles of the question were not detected
OneQuestionImage(g) ==
    [sheet |-> 1,
     inks |-> <<[a \in 1..AlternativesPerQuestion |->
                    IF a <= Len(g) THEN g[a] ELSE 0]>>,
     missed |-> {<<1, a>> : a \in Len(g)..(AlternativesPerQuestion - 1)},
     markers |-> SubSeq(FoundMarkers, 1, max_markers)]

StagesInit ==
    /\ \/ \E n \in (1..MaxSeqSheet) \cup BigSeqSheets, p \in 0..MaxPattern :
            image = ImageOf(n, p, {}, SubSeq(FoundMarkers, 1, max_markers))
       \/ \E k \in 1..AlternativesPerQuestion :
            \E g \in [1..k -> ScoreValues] : image = OneQuestionImage(g)
    /\ num_questions = image.sheet
    /\ pc = "sort"
    /\ bubbles = FoundBubbles(image)
    /\ sorted_bubbles = <<>>
    /\ respostas_marcadas = <<>>
    /\ q_index = 0
    /\ result = NoResult
    /\ stages = <<>>
    /\ first_result = NoResult
    /\ AlignIdle
    /\ CacheIdle
    /\ CompareIdle
    /\ ReconIdle

StagesNext ==
    \/ SortBubbles
    \/ ExtractQuestion
    \/ ReturnSuccess

StagesSpec == StagesInit /\ [][StagesNext]_vars


-----------------------------------------------------------------------------
(* align_image (lines 98-112): get_marker_points, order_points and         *)
(* four_point_transform, on the centres of the marker contours.  A point   *)
(* is a pair <<x, y>> of image coordinates (y grows downwards).            *)

Max(a, b) == IF a >= b THEN a ELSE b

PointAdd(p, q) == <<p[1] + q[1], p[2] + q[2]>>
PointSub(p, q) == <<p[1] - q[1], p[2] - q[2]>>

\* the square of np.linalg.norm(p - q)
Dist2(p, q) ==
    (p[1] - q[1]) * (p[1] - q[1]) + (p[2] - q[2]) * (p[2] - q[2])

\* np.argmin / np.argmax of an integer sequence: the first index of the
\* least / greatest value (1-based here)
ArgMin(s) ==
    CHOOSE i \in 1..Len(s) :
        /\ \A j \in 1..Len(s) : s[i] <= s[j]
        /\ \A j \in 1..(i - 1) : s[j] # s[i]

ArgMax(s) ==
    CHOOSE i \in 1..Len(s) :
        /\ \A j \in 1..Len(s) : s[i] >= s[j]
        /\ \A j \in 1..(i - 1) : s[j] # s[i]

\* line 90: dists[i] < dists[j] for two of the three points.  dists[i] is
\* |P[i] - P[j]| + |P[i] - P[k]| and dists[j] is |P[j] - P[i]| + |P[j] - P[k]|,
\* k the third point: they differ by the distances to k only.
DistsLess(P, i, j) ==
    LET k == CHOOSE t \in 1..3 : t # i /\ t # j
    IN  Dist2(P[i], P[k]) < Dist2(P[j], P[k])

\* line 91: np.argmin(dists), the first index of the least sum
p_center_idx(P) ==
    CHOOSE i \in 1..3 :
        /\ \A j \in (1..3) \ {i} : ~DistsLess(P, j, i)
        /\ \A j \in 1..(i - 1) : DistsLess(P, i, j)

\* line 92: the two other indices, ascending
p_others_idx(P) ==
    LET o == (1..3) \ {p_center_idx(P)}
    IN  <<SetMin(o), SetMax(o)>>

\* the completion is taken from the anchor's side: anchor - other1 + other2
missing_point_FromAnchor(P) ==
    PointAdd(PointSub(P[p_center_idx(P)], P[p_others_idx(P)[1]]),
             P[p_others_idx(P)[2]])

\* line 93
missing_point(P) ==
    PointAdd(PointSub(P[p_others_idx(P)[1]], P[p_center_idx(P)]),
             P[p_others_idx(P)[2]])

\* lines 86-96, on the centres computed by lines 77-84
get_marker_points(cs) ==
    IF Len(cs) = 3 THEN Append(cs, missing_point(cs)) ELSE cs

\* line 21: pts.sum(axis=1)
CoordSums(pts) == [i \in 1..Len(pts) |-> pts[i][1] + pts[i][2]]

\* the difference taken as x - y
CoordDiffs_XMinusY(pts) == [i \in 1..Len(pts) |-> pts[i][1] - pts[i][2]]

\* line 23: np.diff(pts, axis=1) is y - x
CoordDiffs(pts) == [i \in 1..Len(pts) |-> pts[i][2] - pts[i][1]]

\* lines 20-25: rect[0], rect[1], rect[2], rect[3]
order_points(pts) ==
    <<pts[ArgMin(CoordSums(pts))],
      pts[ArgMin(CoordDiffs(pts))],
      pts[ArgMax(CoordSums(pts))],
      pts[ArgMax(CoordDiffs(pts))]>>

\* the integer part of the square root of n >= 0
Isqrt(n) == CHOOSE r \in 0..n : r * r <= n /\ (r + 1) * (r + 1) > n

\* the length rounded to the nearest integer
IntNorm_Rounded(p, q) ==
    IF Dist2(p, q) > Isqrt(Dist2(p, q)) * Isqrt(Dist2(p, q)) + Isqrt(Dist2(p, q))
    THEN Isqrt(Dist2(p, q)) + 1
    ELSE Isqrt(Dist2(p, q))

\* int(np.linalg.norm(p - q)) (lines 33-36): the length, truncated.  The
\* float32 norm has the integer part of the exact one for lengths below
\* some 2900 pixels.
IntNorm(p, q) == Isqrt(Dist2(p, q))

\* lines 32-36: <<maxWidth, maxHeight>>, the size asked of warpPerspective
WarpedSize(r) ==
    LET tl == r[1]
        tr == r[2]
        br == r[3]
        bl == r[4]
    IN  <<Max(IntNorm(br, bl), IntNorm(tr, tl)),
          Max(IntNorm(tr, br), IntNorm(tl, bl))>>

\* line 106
GetMarkerPoints ==
    /\ pc = "get_marker_points"
    /\ points' = get_marker_points(centres)
    /\ pc' = "four_point_transform"
    /\ UNCHANGED <<centres, rect, warped_size>>
    /\ UNCHANGED <<image, num_questions, bubbles, sorted_bubbles,
                   respostas_marcadas, q_index, result, stages, first_result>>
    /\ UNCHANGED <<cacheVars, compareVars, reconVars>>

\* lines 109-110, 31-39
FourPointTransform ==
    /\ pc = "four_point_transform"
    /\ rect' = order_points(points)
    /\ warped_size' = WarpedSize(order_points(points))
    /\ pc' = "aligned"
    /\ UNCHANGED <<centres, points>>
    /\ UNCHANGED <<image, num_questions, bubbles, sorted_bubbles,
                   respostas_marcadas, q_index, result, stages, first_result>>
    /\ UNCHANGED <<cacheVars, compareVars, reconVars>>

\* the longest side, in pixels, of the marker rectangles tried
MaxSide == 2

\* the corners of a rectangle, from corner o along u and along k times u
\* turned by a right angle: TL, TR, BR, BL when u points right
RectCorners(o, u, k) ==
    <<o,
      PointAdd(o, u),
      PointAdd(PointAdd(o, u), <<-k * u[2], k * u[1]>>),
      PointAdd(o, <<-k * u[2], k * u[1]>>)>>

Rectangles ==
    {RectCorners(<<MaxSide * MaxSide, 0>>, <<a, b>>, k) :
        a \in 0..MaxSide, b \in 0..MaxSide, k \in 1..MaxSide}
      \ {RectCorners(<<MaxSide * MaxSide, 0>>, <<0, 0>>, k) : k \in 1..MaxSide}

\* convex quadrilaterals with opposite sides of different lengths
Trapezoids ==
    {<< <<0, 0>>, <<4, 0>>, <<3, 2>>, <<1, 2>> >>,
     << <<1, 0>>, <<3, 1>>, <<4, 4>>, <<0, 3>> >>,
     << <<0, 1>>, <<5, 0>>, <<6, 3>>, <<1, 5>> >>}

\* the ways of finding n of the 4 markers, in any order
Findings(n) == {f \in [1..n -> 1..4] : \A i, j \in 1..n : i # j => f[i] # f[j]}

\* no call of process_gabarito_image is being looked at
CallIdle ==
    /\ image = [sheet |-> 0, inks |-> <<>>, missed |-> {}, markers |-> <<>>]
    /\ num_questions = 0
    /\ InitLocals
    /\ first_result = NoResult
    /\ CompareIdle
    /\ ReconIdle

AlignInit ==
    /\ \E corners \in Rectangles \cup Trapezoids :
         \E n \in {min_markers, max_markers} :
            \E f \in Findings(n) : centres = [i \in 1..n |-> corners[f[i]]]
    /\ points = <<>>
    /\ rect = <<>>
    /\ warped_size = <<0, 0>>
    /\ pc = "get_marker_points"
    /\ CallIdle
    /\ CacheIdle

AlignNext ==
    \/ GetMarkerPoints
    \/ FourPointTransform

AlignSpec == AlignInit /\ [][AlignNext]_vars

-----------------------------------------------------------------------------
(* Claims.                                                                 *)

StageOrder == <<"align", "detect", "sequence", "extract">>
IsPrefix(s, t) == Len(s) <= Len(t) /\ \A i \in 1..Len(s) : s[i] = t[i]
Terminated == pc \in {"done", "failed"}

\* the steps process_gabarito_image may take from each position
LinearStep ==
    /\ pc = "align" => pc' \in {"detect", "failed"}
    /\ pc = "detect" => pc' \in {"sort", "failed"}
    /\ pc = "sort" => pc' \in {"extract", "failed"}
    /\ pc = "extract" => pc' \in {"extract", "done", "failed"}
    /\ ~Terminated

\* what holds of the stages entered and of the result at every moment of a run
C1_StagesInOrder ==
    /\ IsPrefix(stages, StageOrder)
    /\ ~Terminated => result = NoResult
    /\ pc = "done" => result.success /\ stages = StageOrder
    /\ pc = "failed" =>
          /\ ~result.success
          /\ result.error[1] = "markers" => stages = <<"align">>
          /\ result.error[1] = "bubbles" => stages = <<"align", "detect">>

\* C1: every run of process_gabarito_image enters the stages align, detect,
\* sequence, extract in that order, each at most once; it ends, and ends either
\* done with success = True or failed with success = False, with no result
\* before; when align or detect_bubbles fails no later stage is entered.
C1_LinearPipeline ==
    /\ [](C1_StagesInOrder)
    /\ [][LinearStep]_vars
    /\ <>Terminated

\* detect_bubbles failed and nothing after it ran
C1_Witness ==
    /\ pc = "failed"
    /\ result.error[1] = "bubbles"
    /\ stages = <<"align", "detect">>
    /\ sorted_bubbles = <<>>

\* C2: whenever a stage raises, the value returned is a failure value with an
\* error description and no 'answers' entry, also when answers had been
\* recorded for earlier questions.
C2_NoPartialAnswers ==
    /\ pc = "failed" =>
          /\ ~result.success
          /\ "error" \in DOMAIN result
          /\ "answers" \notin DOMAIN result
    /\ pc # "align" /\ detect_markers(image.markers).raised => pc = "failed"
    /\ pc \notin {"align", "detect"}
          /\ detect_bubbles(image, num_questions).raised => pc = "failed"

\* extraction failed after it had recorded answers
C2_Witness ==
    /\ pc = "failed"
    /\ result.error[1] = "extract"
    /\ DOMAIN respostas_marcadas # {}

\* the candidate count detect_bubbles ends with (lines 174-178)
FinalCount ==
    Len(Trimmed(AfterReconstruction(FoundBubbles(image)),
                ExpectedCount(num_questions)))

SequencingStarted == pc \in {"sort", "extract", "done"}
DetectFailed == pc = "failed" /\ result.error[1] = "bubbles"

\* C3 as stated: when detect_bubbles succeeds the candidates handed to
\* sort_bubbles_by_columns number num_questions x 5 (or 200 without a hint).
C3_ExactCount ==
    SequencingStarted => Len(bubbles) = ExpectedCount(num_questions)

\* C3 amended: when detect_bubbles succeeds the candidates handed to
\* sort_bubbles_by_columns number at least 1 and at most the expected count,
\* and the number equals the expected count, or is a multiple of 5 with a hint
\* given, or is above 90% of the expected count; in every other case
\* detect_bubbles fails and the pipeline ends failed.
C3_CountWithinTolerance ==
    /\ SequencingStarted =>
          /\ Len(bubbles) >= 1
          /\ Len(bubbles) <= ExpectedCount(num_questions)
          /\ \/ Len(bubbles) = ExpectedCount(num_questions)
             \/ num_questions # 0 /\ Len(bubbles) % 5 = 0
             \/ 10 * Len(bubbles) > 9 * ExpectedCount(num_questions)
    /\ DetectFailed =>
          /\ FinalCount # ExpectedCount(num_questions)
          /\ num_questions = 0 \/ FinalCount = 0 \/ FinalCount % 5 # 0
          /\ 10 * FinalCount <= 9 * ExpectedCount(num_questions)

\* sequencing starts with a count other than the expected one
C3_Witness ==
    /\ pc = "sort"
    /\ Len(bubbles) # ExpectedCount(num_questions)
    /\ Len(bubbles) % 5 # 0

SequencingDone == pc \in {"extract", "done"}
Elements(s) == {s[i] : i \in 1..Len(s)}

\* C4 as stated: for every non-empty list of candidates, of any length,
\* sort_bubbles_by_columns returns a permutation of its input: same length,
\* every input candidate exactly once.
C4_SortIsPermutation ==
    SequencingDone =>
        /\ Len(sorted_bubbles) = Len(bubbles)
        /\ Elements(sorted_bubbles) = Elements(bubbles)

\* the bubbles of printed question q, A to E
PrintedQuestion(q, n) ==
    [a \in 1..AlternativesPerQuestion |-> PrintedBubble(q, a - 1, n)]

\* C5 as stated: on a 10-question sheet in 3 columns numbered column-major,
\* all 50 bubbles detected, sequencing and grouping assign to each number q
\* the five bubbles of printed question q, and the answer returned for q is
\* the one filled in for printed question q.
C5_TenQuestionSheet ==
    pc = "done" /\ image.sheet = 10 /\ Len(bubbles) = 50 =>
        \A q \in 1..10 :
            /\ QuestionGroup(sorted_bubbles, q - 1) = PrintedQuestion(q, 10)
            /\ result.answers[q] = Resposta(image.inks[q])

\* the scores of the group recorded as question k
ScoresOf(k) == Pontuacoes(image, QuestionGroup(sorted_bubbles, k - 1))

\* the decision rule as the specification words it, on a group s of scores
RuleMax(s) == SetMax({s[j] : j \in 1..Len(s)})
RuleMaxAt(s) == SetMin({j \in 1..Len(s) : s[j] = RuleMax(s)})
RuleSecond(s) ==
    IF Len(s) < 2 THEN 0
    ELSE SetMax({s[j] : j \in (1..Len(s)) \ {RuleMaxAt(s)}})
RuleRatio(s) == RuleSecond(s) = 0 \/ 100 * RuleMax(s) > 115 * RuleSecond(s)
RuleMean(s) == 10 * Len(s) * RuleMax(s) > 11 * SumSeq(s)
RuleFloor(s) == RuleMax(s) > 50
RuleMarked(s) == RuleRatio(s) /\ RuleMean(s) /\ RuleFloor(s)

C7_NearEqualUnmarked ==
    \A k \in DOMAIN respostas_marcadas :
        LET s == ScoresOf(k)
        IN  /\ RuleSecond(s) > 0 /\ 100 * RuleMax(s) <= 115 * RuleSecond(s)
                 => respostas_marcadas[k] = NAO_MARCADA
            /\ s = <<100, 98, 95, 97, 99>> => respostas_marcadas[k] = NAO_MARCADA
            /\ RuleMax(s) = 0 => respostas_marcadas[k] = NAO_MARCADA

\* the three cases have been answered: near-uniform, exactly 1.15, all zero
C7_Witness ==
    /\ \E k \in DOMAIN respostas_marcadas :
          /\ ScoresOf(k) = <<100, 98, 95, 97, 99>>
          /\ respostas_marcadas[k] = NAO_MARCADA
    /\ \E k \in DOMAIN respostas_marcadas :
          /\ ScoresOf(k) = <<115, 100, 20, 20, 20>>
          /\ respostas_marcadas[k] = NAO_MARCADA
    /\ \E k \in DOMAIN respostas_marcadas :
          /\ ScoresOf(k) = <<0, 0, 0, 0, 0>>
          /\ respostas_marcadas[k] = NAO_MARCADA

\* the number of groups extract_answers forms from the ordered sequence
GroupCount ==
    (Len(sorted_bubbles) + AlternativesPerQuestion - 1)
        \div AlternativesPerQuestion

\* C8: on success the keys of the answer map are exactly 1..N, N the number
\* of groups formed from the ordered sequence; question k is the k-th group,
\* every value is one of A..E or the unmarked value, and total_questions = N.
C8_AnswerKeys ==
    pc = "done" =>
        /\ DOMAIN result.answers = 1..GroupCount
        /\ result.total_questions = GroupCount
        /\ \A k \in 1..GroupCount :
              /\ result.answers[k] \in Elements(alternativas) \cup {NAO_MARCADA}
              /\ result.answers[k] = Resposta(ScoresOf(k))

\* a run has succeeded with more than one question
C8_Witness ==
    /\ pc = "done"
    /\ result.total_questions >= 2
    /\ \E k \in DOMAIN result.answers : result.answers[k] # NAO_MARCADA

\* C9 as stated: every group that extract_answers scores and records has
\* exactly 5 candidates.
C9_GroupsOfFive ==
    \A k \in DOMAIN respostas_marcadas :
        Len(QuestionGroup(sorted_bubbles, k - 1)) = AlternativesPerQuestion

DetectDecided == SequencingStarted \/ DetectFailed
CountDiffers == FinalCount # ExpectedCount(num_questions)

\* C10 as stated: when the final count differs from expectedCount it is
\* accepted iff it is a positive multiple of 5 or above 90% of expectedCount,
\* with or without a hint.
C10_AcceptanceAnyHint ==
    DetectDecided /\ CountDiffers =>
        (SequencingStarted <=>
            \/ FinalCount > 0 /\ FinalCount % 5 = 0
            \/ 10 * FinalCount > 9 * ExpectedCount(num_questions))

\* C10 amended: when the final count differs from expectedCount it is
\* accepted iff it is above 90% of expectedCount, or a hint was supplied and
\* it is a positive multiple of 5; detect_bubbles fails otherwise.
C10_AcceptanceWithHint ==
    DetectDecided /\ CountDiffers =>
        (SequencingStarted <=>
            \/ num_questions # 0 /\ FinalCount > 0 /\ FinalCount % 5 = 0
            \/ 10 * FinalCount > 9 * ExpectedCount(num_questions))

\* without a hint, a positive multiple of 5 below 90% has been rejected
C10_Witness ==
    /\ DetectFailed
    /\ num_questions = 0
    /\ FinalCount > 0
    /\ FinalCount % 5 = 0

\* the candidates detect_bubbles holds after reconstruction (line 172)
Reconstructed == AfterReconstruction(FoundBubbles(image))

\* every element of kept has an area at least that of every other element of
\* all
LargestKept(kept, all) ==
    /\ Elements(kept) \subseteq Elements(all)
    /\ \A k \in Elements(kept), d \in Elements(all) \ Elements(kept) :
          k.area >= d.area

\* C11: whenever the candidate count after reconstruction is at least
\* expectedCount, detect_bubbles succeeds and returns exactly expectedCount
\* candidates, each of area greater than or equal to that of every discarded
\* candidate.
C11_TrimKeepsLargest ==
    DetectDecided /\ Len(Reconstructed) >= ExpectedCount(num_questions) =>
        /\ SequencingStarted
        /\ pc = "sort" =>
              /\ Len(bubbles) = ExpectedCount(num_questions)
              /\ LargestKept(bubbles, Reconstructed)

\* candidates were discarded, of smaller area than some that were kept
C11_Witness ==
    /\ pc = "sort"
    /\ Len(Reconstructed) > ExpectedCount(num_questions)
    /\ \E k \in Elements(bubbles), d \in Elements(Reconstructed) \ Elements(bubbles) :
          k.area > d.area

MarkersFailed == pc = "failed" /\ result.error[1] = "markers"

\* C12: alignment fails, with a message reporting the number found, iff fewer
\* than 3 marker contours survive the filters; with 3 or more, detect_markers
\* returns at most 4 markers, which are the 4 of largest area when more than 4
\* survived.
C12_MarkerShortfall ==
    pc # "align" =>
        /\ MarkersFailed <=> Len(image.markers) < 3
        /\ MarkersFailed => result.error[2] = Len(image.markers)
        /\ Len(image.markers) >= 3 =>
              /\ ~detect_markers(image.markers).raised
              /\ Len(detect_markers(image.markers).markers)
                     = Min(Len(image.markers), 4)
              /\ LargestKept(detect_markers(image.markers).markers, image.markers)

\* alignment went through with more than 4 surviving markers
C12_Witness ==
    /\ pc = "detect"
    /\ Len(image.markers) > 4
    /\ Len(detect_markers(image.markers).markers) = 4

Dot(p, q) == p[1] * q[1] + p[2] * q[2]
OthersOf(i) == (1..3) \ {i}

\* the two other points of P are seen from P[i] at a right angle
RightAngleAt(P, i) ==
    LET o1 == SetMin(OthersOf(i))
        o2 == SetMax(OthersOf(i))
    IN  /\ P[o1] # P[i]
        /\ P[o2] # P[i]
        /\ Dot(PointSub(P[o1], P[i]), PointSub(P[o2], P[i])) = 0

\* P holds three corners of a non-degenerate rectangle
ThreeOfRectangle(P) == Len(P) = 3 /\ \E i \in 1..3 : RightAngleAt(P, i)

\* the fourth corner of that rectangle
TrueFourth(P) ==
    LET i == CHOOSE t \in 1..3 : RightAngleAt(P, t)
    IN  PointSub(PointAdd(P[SetMin(OthersOf(i))], P[SetMax(OthersOf(i))]), P[i])

\* corners p and q of the rectangle with other corners r1, r2 face each other
\* across a diagonal (the diagonals share their midpoint)
OppositeCorners(p, q, r1, r2) == PointAdd(p, q) = PointAdd(r1, r2)

PointsEstimated == pc \in {"four_point_transform", "aligned"}

\* C13 as stated: for any three corners of a true rectangle, in any order,
\* the anchor chosen is the corner adjacent to the missing one, and the point
\* appended, other1 - anchor + other2, is the true missing corner.
C13_AnchorAdjacent ==
    PointsEstimated /\ ThreeOfRectangle(centres) =>
        /\ ~OppositeCorners(centres[p_center_idx(centres)], TrueFourth(centres),
                            centres[p_others_idx(centres)[1]],
                            centres[p_others_idx(centres)[2]])
        /\ points = Append(centres, TrueFourth(centres))

\* C13 amended: for any three corners of a true rectangle, in any order, the
\* anchor chosen is the corner where the two others meet at a right angle,
\* which is the one diagonally opposite the missing corner, and the point
\* appended, other1 - anchor + other2, is the true missing corner.
C13_FourthCorner ==
    PointsEstimated /\ ThreeOfRectangle(centres) =>
        /\ RightAngleAt(centres, p_center_idx(centres))
        /\ OppositeCorners(centres[p_center_idx(centres)], TrueFourth(centres),
                           centres[p_others_idx(centres)[1]],
                           centres[p_others_idx(centres)[2]])
        /\ points = Append(centres, TrueFourth(centres))

\* the fourth corner of a tilted rectangle was estimated, the anchor found last
C13_Witness ==
    /\ PointsEstimated
    /\ ThreeOfRectangle(centres)
    /\ p_center_idx(centres) = 3
    /\ centres[1][2] # centres[3][2]
    /\ centres[1][1] # centres[3][1]
    /\ points[4] = TrueFourth(centres)

\* C14 as stated: for 4 points forming a convex quadrilateral, order_points
\* returns the same sequence for every permutation of the input list.
C14_OrderInvariant ==
    pc = "aligned" /\ Len(centres) = 4 =>
        \A f \in Findings(4) :
            order_points([i \in 1..4 |-> centres[f[i]]]) = rect

SumXY(p) == p[1] + p[2]
DiffXY(p) == p[1] - p[2]

\* pts are the corners of a rectangle with sides along the axes
AxisAligned(pts) ==
    /\ Cardinality(Elements(pts)) = 4
    /\ Cardinality({q[1] : q \in Elements(pts)}) = 2
    /\ Cardinality({q[2] : q \in Elements(pts)}) = 2

\* its corners: top-left, top-right, bottom-right, bottom-left
TrueCorners(pts) ==
    LET xs == {q[1] : q \in Elements(pts)}
        ys == {q[2] : q \in Elements(pts)}
    IN  <<<<SetMin(xs), SetMin(ys)>>, <<SetMax(xs), SetMin(ys)>>,
          <<SetMax(xs), SetMax(ys)>>, <<SetMin(xs), SetMax(ys)>>>>

\* what C15 says of positions 0 and 2, and of the rectangle with sides along
\* the axes
SumCorners ==
    /\ rect[1] \in Elements(points)
    /\ rect[3] \in Elements(points)
    /\ \A q \in Elements(points) : SumXY(rect[1]) <= SumXY(q)
    /\ \A q \in Elements(points) : SumXY(rect[3]) >= SumXY(q)
    /\ AxisAligned(points) => rect = TrueCorners(points)

\* C15 as stated: order_points puts at 0 the point of minimum x+y, at 2 that
\* of maximum x+y, at 1 that of minimum x-y and at 3 that of maximum x-y;
\* for a rectangle along the axes these are its true TL, TR, BR, BL corners.
C15_CornersAsStated ==
    pc = "aligned" =>
        /\ SumCorners
        /\ rect[2] \in Elements(points)
        /\ rect[4] \in Elements(points)
        /\ \A q \in Elements(points) : DiffXY(rect[2]) <= DiffXY(q)
        /\ \A q \in Elements(points) : DiffXY(rect[4]) >= DiffXY(q)

\* C15 amended: order_points puts at 0 the point of minimum x+y, at 2 that of
\* maximum x+y, at 1 (TR) that of maximum x-y (minimum y-x) and at 3 (BL)
\* that of minimum x-y (maximum y-x); for a rectangle along the axes these
\* are its true TL, TR, BR, BL corners, each input point used once.
C15_Corners ==
    pc = "aligned" =>
        /\ SumCorners
        /\ rect[2] \in Elements(points)
        /\ rect[4] \in Elements(points)
        /\ \A q \in Elements(points) : DiffXY(rect[2]) >= DiffXY(q)
        /\ \A q \in Elements(points) : DiffXY(rect[4]) <= DiffXY(q)
        /\ AxisAligned(points) => Elements(rect) = Elements(points)

\* a rectangle along the axes, given in another order, has been ordered
C15_Witness ==
    /\ pc = "aligned"
    /\ Len(centres) = 4
    /\ AxisAligned(points)
    /\ points # rect
    /\ rect = TrueCorners(points)

\* the squares of the longer of the two widths and of the two heights
MaxWidth2 == Max(Dist2(rect[3], rect[4]), Dist2(rect[2], rect[1]))
MaxHeight2 == Max(Dist2(rect[2], rect[3]), Dist2(rect[1], rect[4]))

\* n rounded: the square root of n to the nearest integer
RoundSqrt(n) ==
    LET r == Isqrt(n) IN IF n > r * r + r THEN r + 1 ELSE r

\* C16 as stated: the aligned image has width round(max(|BR-BL|, |TR-TL|))
\* and height round(max(|TR-BR|, |TL-BL|)).
C16_RoundedSize ==
    pc = "aligned" =>
        warped_size = <<RoundSqrt(MaxWidth2), RoundSqrt(MaxHeight2)>>

\* C16 amended: the size four_point_transform asks for the aligned image is
\* the integer part (not the rounding) of max(|BR-BL|, |TR-TL|) for the width
\* and of max(|TR-BR|, |TL-BL|) for the height.
C16_TruncatedSize ==
    pc = "aligned" =>
        /\ warped_size[1] * warped_size[1] <= MaxWidth2
        /\ (warped_size[1] + 1) * (warped_size[1] + 1) > MaxWidth2
        /\ warped_size[2] * warped_size[2] <= MaxHeight2
        /\ (warped_size[2] + 1) * (warped_size[2] + 1) > MaxHeight2

\* a width whose rounding is one more than its integer part
C16_Witness ==
    /\ pc = "aligned"
    /\ warped_size[1] > 0
    /\ warped_size[2] > 0
    /\ warped_size[1] + 1 = RoundSqrt(MaxWidth2)

\* the synthetic candidate c lies within half a bubble width of printed bubble qa
NearPrinted(c, qa) ==
    /\ c.q = 0
    /\ c.y = PrintedBubble(qa[1], qa[2], image.sheet).y
    /\ 2 * Abs(c.x - PrintedBubble(qa[1], qa[2], image.sheet).x) <= bubble_size

\* C17 as stated: for a single row of N evenly spaced bubbles from which
\* exactly one has been removed, at any position including the first and the
\* last, reconstruct_missing_bubbles returns N candidates and the synthesized
\* one lies within half a bubble width of the removed bubble's position.
C17_RowRestored ==
    DetectDecided /\ image.sheet = 1 /\ Cardinality(image.missed) = 1 =>
        /\ Len(Reconstructed) = AlternativesPerQuestion
        /\ \E c \in Elements(Reconstructed) :
              \A qa \in image.missed : NearPrinted(c, qa)

-----------------------------------------------------------------------------
(* Two calls of process_gabarito_image on the same image and hint.  The    *)
(* stages are functions of their arguments (image_processor.py has no      *)
(* module-level data besides its logger), and every name a call assigns is *)
(* a local of its frame.  No library call fails for lack of resources.     *)

\* the loop counter of extract_answers outlives the call
NewFrame_CounterKept(previous) ==
    [bubbles |-> <<>>, sorted_bubbles |-> <<>>, respostas_marcadas |-> <<>>,
     q_index |-> previous.q_index]

\* the locals at the entry of a call, whatever the previous call left in
\* its own frame: nothing is bound yet (line 411), respostas_marcadas = {}
\* (line 319) and the enumerate of line 327 starts at 0
NewFrame(previous) ==
    [bubbles |-> <<>>, sorted_bubbles |-> <<>>, respostas_marcadas |-> <<>>,
     q_index |-> 0]

\* the first call has returned; the caller keeps its value and calls again
\* with the same arguments
CallAgain ==
    /\ pc \in {"done", "failed"}
    /\ first_result = NoResult
    /\ first_result' = result
    /\ pc' = "align"
    /\ LET frame == NewFrame([bubbles |-> bubbles,
                              sorted_bubbles |-> sorted_bubbles,
                              respostas_marcadas |-> respostas_marcadas,
                              q_index |-> q_index])
       IN  /\ bubbles' = frame.bubbles
           /\ sorted_bubbles' = frame.sorted_bubbles
           /\ respostas_marcadas' = frame.respostas_marcadas
           /\ q_index' = frame.q_index
    /\ result' = NoResult
    /\ stages' = <<>>
    /\ UNCHANGED <<image, num_questions, alignVars, cacheVars, compareVars,
                   reconVars>>

TwiceNext ==
    \/ Align
    \/ DetectBubbles
    \/ SortBubbles
    \/ ExtractQuestion
    \/ ReturnSuccess
    \/ CallAgain

TwiceSpec == Init /\ [][TwiceNext]_vars

SecondReturned == pc \in {"done", "failed"} /\ first_result # NoResult

-----------------------------------------------------------------------------
(* The result cache (cache_manager.py) and process_image (server.py lines  *)
(* 125-192) using it from the threads of the development server.           *)
(*                                                                         *)
(* image_data is the pair <<prefix, base64 part>> of a data URL; the       *)
(* base64 part is the number of the upload it encodes.  A key stands for   *)
(* the 16 hex digits of the SHA-256 of the base64 part: distinct parts     *)
(* have distinct keys.  self.cache is a function of the keys present;      *)
(* self.access_times is the sequence of its <<key, time>> items in dict    *)
(* order.  One cache call, made under self.lock, reads one clock value.    *)

\* bounds of the cache model: the ImageCache parameters (50 and 1800 for the
\* global instance, 3 and 2 in the tests), the clock, the cache lookups and
\* the threads serving requests
max_size == 2
ttl_seconds == 1
MaxTime == 2
MaxAccesses == 4
MaxThreads == 2

\* the uploads: 0 does not pass the validation of lines 131-153, the others
\* are photographs of sheets of 1 and 2 questions, the last two with the last
\* bubble of the sheet lost to detection noise
InvalidUpload == 0
UploadSheets == <<1, 2, 2, 1>>
UploadPatterns == <<0, 0, 1, 0>>
UploadMissed == <<{}, {}, {<<2, 4>>}, {<<1, 4>>}>>
Uploads == {<<"data:image/jpeg;base64", d>> : d \in 0..Len(UploadSheets)}

\* num_questions as /api/process passes it: len(gabarito['questions']) of a
\* reference key of 1 or 2 questions (server.py line 231)
Hints == {1, 2}

\* lines 138-140: the decoded image
Decoded(image_data) ==
    ImageOf(UploadSheets[image_data[2]], UploadPatterns[image_data[2]],
            UploadMissed[image_data[2]], SubSeq(FoundMarkers, 1, max_markers))

\* lines 41-51
generate_key(image_data) == image_data[2]

\* an entry expires as soon as ttl_seconds have passed
is_expired_OrEqual(timestamp, t) == t - timestamp >= ttl_seconds

\* lines 53-57 and 66: a timestamp is expired at clock value t
is_expired(timestamp, t) == t - timestamp > ttl_seconds

KeysIn(times) == {times[i][1] : i \in 1..Len(times)}
TimeOf(times, key) ==
    times[CHOOSE i \in 1..Len(times) : times[i][1] = key][2]

\* dict.pop(key, None)
Pop(d, key) == [k \in DOMAIN d \ {key} |-> d[k]]
PopTime(times, key) == SelectSeq(times, LAMBDA e : e[1] # key)
PopKeys(d, keys) == [k \in DOMAIN d \ keys |-> d[k]]

\* d[key] = value: a key already present keeps its place in the dict order
Store(d, key, value) ==
    [k \in DOMAIN d \cup {key} |-> IF k = key THEN value ELSE d[k]]
StoreTime(times, key, t) ==
    IF key \in KeysIn(times)
    THEN [i \in 1..Len(times) |->
             IF times[i][1] = key THEN <<key, t>> ELSE times[i]]
    ELSE Append(times, <<key, t>>)

\* history: key has just been used
Touch(order, key) == Append(SelectSeq(order, LAMBDA k : k # key), key)
Forget(order, keys) == SelectSeq(order, LAMBDA k : k \notin keys)

\* lines 59-75, _cleanup_expired at clock value t
expired_keys(times, t) ==
    {times[i][1] : i \in {j \in 1..Len(times) : is_expired(times[j][2], t)}}
cleanup_expired(c, times, t) ==
    [cache |-> PopKeys(c, expired_keys(times, t)),
     access_times |-> SelectSeq(times, LAMBDA e : ~is_expired(e[2], t))]

\* line 85: min(self.access_times.keys(), key=...) is the first key, in dict
\* order, of the smallest timestamp
oldest_key(times) ==
    times[CHOOSE i \in 1..Len(times) :
             /\ \A j \in 1..Len(times) : times[i][2] <= times[j][2]
             /\ \A j \in 1..(i - 1) : times[j][2] > times[i][2]][1]

\* the oldest entry leaves self.cache only
evict_lru_CacheOnly(c, times) ==
    IF times = <<>> THEN [cache |-> c, access_times |-> times]
    ELSE [cache |-> Pop(c, oldest_key(times)), access_times |-> times]

\* lines 77-90, _evict_lru
evict_lru(c, times) ==
    IF times = <<>> THEN [cache |-> c, access_times |-> times]
    ELSE [cache |-> Pop(c, oldest_key(times)),
          access_times |-> PopTime(times, oldest_key(times))]

\* the get that finds its entry expired is not counted
get_ExpiredUncounted(c, times, hits, misses, image_data, t) ==
    LET key == generate_key(image_data)
    IN  IF key \notin DOMAIN c
        THEN [cache |-> c, access_times |-> times,
              hit_count |-> hits, miss_count |-> misses + 1,
              value |-> NoResult]
        ELSE IF is_expired(TimeOf(times, key), t)
        THEN [cache |-> Pop(c, key), access_times |-> PopTime(times, key),
              hit_count |-> hits, miss_count |-> misses,
              value |-> NoResult]
        ELSE [cache |-> c, access_times |-> StoreTime(times, key, t),
              hit_count |-> hits + 1, miss_count |-> misses,
              value |-> c[key]]

\* lines 92-122, ImageCache.get at clock value t: the cache after the call
\* and the value returned (NoResult stands for None)
get(c, times, hits, misses, image_data, t) ==
    LET key == generate_key(image_data)
    IN  IF key \notin DOMAIN c
        THEN [cache |-> c, access_times |-> times,
              hit_count |-> hits, miss_count |-> misses + 1,
              value |-> NoResult]
        ELSE IF is_expired(TimeOf(times, key), t)
        THEN [cache |-> Pop(c, key), access_times |-> PopTime(times, key),
              hit_count |-> hits, miss_count |-> misses + 1,
              value |-> NoResult]
        ELSE [cache |-> c, access_times |-> StoreTime(times, key, t),
              hit_count |-> hits + 1, miss_count |-> misses,
              value |-> c[key]]

\* a set on a key already present keeps the result stored first
set_KeepsFirst(c, times, image_data, value, t) ==
    LET key == generate_key(image_data)
        cleaned == cleanup_expired(c, times, t)
        room == IF Cardinality(DOMAIN cleaned.cache) >= max_size
                   /\ key \notin DOMAIN cleaned.cache
                THEN evict_lru(cleaned.cache, cleaned.access_times)
                ELSE cleaned
    IN  [cache |-> IF key \in DOMAIN room.cache THEN room.cache
                   ELSE Store(room.cache, key, value),
         access_times |-> StoreTime(room.access_times, key, t)]

\* lines 124-147, ImageCache.set at clock value t
set(c, times, image_data, value, t) ==
    LET key == generate_key(image_data)
        cleaned == cleanup_expired(c, times, t)
        room == IF Cardinality(DOMAIN cleaned.cache) >= max_size
                   /\ key \notin DOMAIN cleaned.cache
                THEN evict_lru(cleaned.cache, cleaned.access_times)
                ELSE cleaned
    IN  [cache |-> Store(room.cache, key, value),
         access_times |-> StoreTime(room.access_times, key, t)]

\* extract_answers (lines 327-405) as one call
RECURSIVE ExtractAll(_, _, _, _)
ExtractAll(img, sorted, q, respostas) ==
    IF AlternativesPerQuestion * q >= Len(sorted) THEN respostas
    ELSE ExtractAll(img, sorted, q + 1,
             Registrar(respostas, q,
                       Resposta(Pontuacoes(img, QuestionGroup(sorted, q)))))

\* process_gabarito_image (lines 407-440) as one call
process_gabarito_image(img, hint) ==
    IF detect_markers(img.markers).raised
    THEN FailureValue("markers", Len(img.markers))
    ELSE LET d == detect_bubbles(img, hint)
         IN  IF d.raised THEN FailureValue("bubbles", ExpectedCount(hint))
             ELSE IF d.cnts = <<>> THEN FailureValue("sort", 0)
             ELSE SuccessValue(ExtractAll(img, sort_bubbles_by_columns(d.cnts),
                                          0, <<>>))

\* line 166 for every upload that decodes and every hint, computed once
Processed ==
    [image_data \in {u \in Uploads : u[2] # InvalidUpload}, hint \in Hints |->
        process_gabarito_image(Decoded(image_data), hint)]

\* what a step of process_image or of the cache leaves alone
outsideCache == <<image, num_questions, pc, bubbles, sorted_bubbles,
                  respostas_marcadas, q_index, result, stages, first_result,
                  alignVars, compareVars, reconVars>>

\* a thread of the server: no request, or a request of /api/process and where
\* it is.  alias is the key of the cache entry that response is (the same
\* dict object), 0 when response is an object of its own.
IdleRequest ==
    [pc |-> "idle", image_data |-> <<>>, num_questions |-> 0,
     result |-> NoResult, response |-> NoResult, alias |-> 0]

\* the request is answered with value (line 290): its frame is gone
Answered(value) == [IdleRequest EXCEPT !.pc = "done", !.response = value]

\* process_image has returned value to process_gabarito (line 234), called
\* with a reference key of hint questions; a failure is only logged and
\* answered (lines 287-290)
Returned(value, hint) ==
    IF value.success
    THEN [IdleRequest EXCEPT !.pc = "returned", !.num_questions = hint,
                             !.response = value]
    ELSE Answered(value)

\* the entries under keys are gone from the cache or replaced: a response
\* that was one of them is an object of its own now
Unalias(reqs, keys) ==
    [j \in DOMAIN reqs |->
        IF reqs[j].alias \in keys THEN [reqs[j] EXCEPT !.alias = 0]
        ELSE reqs[j]]

\* lines 240-245: the reference key of n questions, question id -> answer
correct_answers(n) == [question_num \in 1..n |-> alternativas[question_num]]

\* lines 255-284: result['comparison'] = {...} on the dict result
with_comparison(value, with) ==
    [f \in DOMAIN value \cup {"comparison"} |->
        IF f = "comparison" THEN with ELSE value[f]]

\* a missing answer is no answer at all
student_answer_Null(student, question_num) ==
    IF question_num \in DOMAIN student THEN student[question_num] ELSE "null"

\* server.py lines 259 and 410: student_answers.get(question_num, 'NÃO MARCADA')
student_answer(student, question_num) ==
    IF question_num \in DOMAIN student THEN student[question_num]
    ELSE NAO_MARCADA

\* lines 258-269 and 404-420: the details of every question of the answer key
details(student, key) ==
    [question_num \in DOMAIN key |->
        [student    |-> student_answer(student, question_num),
         correct    |-> key[question_num],
         is_correct |-> student_answer(student, question_num) = key[question_num]]]

\* lines 255-283: the comparison of the detected answers with the key; the
\* score is kept in hundredths of a percent point
comparison_of(answers, key) ==
    LET d == details(answers, key)
        correct == Cardinality({q \in DOMAIN key : d[q].is_correct})
        total == Cardinality(DOMAIN key)
    IN  [score   |-> IF total > 0 THEN RoundHalfEven(10000 * correct, total)
                     ELSE 0,
         correct |-> correct,
         total   |-> total,
         details |-> d]

\* a request arrives and the first free thread takes it (lines 125-153): an
\* upload that does not pass the validation is answered at once
Receive(i) ==
    /\ requests[i].pc \in {"idle", "done"}
    /\ \A j \in 1..(i - 1) : requests[j].pc \notin {"idle", "done"}
    /\ hit_count + miss_count
         + Cardinality({j \in 1..MaxThreads : requests[j].pc = "get"})
         < MaxAccesses
    /\ \E image_data \in Uploads, hint \in Hints :
          requests' = [requests EXCEPT ![i] =
              IF image_data[2] = InvalidUpload
              THEN Returned(FailureValue("invalid", 0), hint)
              ELSE [pc |-> "get", image_data |-> image_data,
                    num_questions |-> hint, result |-> NoResult,
                    response |-> NoResult, alias |-> 0]]
    /\ UNCHANGED <<cache, access_times, hit_count, miss_count, now, recency,
                   last_set, get_calls>>
    /\ UNCHANGED outsideCache

\* lines 160-163: get_cached_result, and the return on a hit
CacheGet(i) ==
    /\ requests[i].pc = "get"
    /\ LET g == get(cache, access_times, hit_count, miss_count,
                    requests[i].image_data, now)
           key == generate_key(requests[i].image_data)
       IN  /\ cache' = g.cache
           /\ access_times' = g.access_times
           /\ hit_count' = g.hit_count
           /\ miss_count' = g.miss_count
           /\ recency' = IF g.value # NoResult THEN Touch(recency, key)
                         ELSE Forget(recency, {key})
           /\ requests' =
                  [Unalias(requests, DOMAIN cache \ DOMAIN g.cache)
                   EXCEPT ![i] =
                      IF g.value # NoResult
                      THEN [Returned(g.value, requests[i].num_questions)
                            EXCEPT !.alias = key]
                      ELSE [@ EXCEPT !.pc = "process"]]
    /\ get_calls' = get_calls + 1
    /\ UNCHANGED <<now, last_set>>
    /\ UNCHANGED outsideCache

\* lines 166-178 and 185: the pipeline runs; a failure is returned as it is
Process(i) ==
    /\ requests[i].pc = "process"
    /\ LET r == Processed[requests[i].image_data, requests[i].num_questions]
       IN  requests' = [requests EXCEPT ![i] =
               IF r.success
               THEN [@ EXCEPT !.pc = "store", !.result = r]
               ELSE Returned(r, requests[i].num_questions)]
    /\ UNCHANGED <<cache, access_times, hit_count, miss_count, now, recency,
                   last_set, get_calls>>
    /\ UNCHANGED outsideCache

\* lines 181-183: cache_result, and the return of final_result
CacheSet(i) ==
    /\ requests[i].pc = "store"
    /\ LET s == set(cache, access_times, requests[i].image_data,
                    requests[i].result, now)
       IN  /\ cache' = s.cache
           /\ access_times' = s.access_times
           /\ recency' = Touch(Forget(recency,
                                      DOMAIN cache \ DOMAIN s.cache),
                               generate_key(requests[i].image_data))
    /\ requests' =
           [Unalias(requests,
                    (DOMAIN cache \ DOMAIN set(cache, access_times,
                                               requests[i].image_data,
                                               requests[i].result, now).cache)
                    \cup {generate_key(requests[i].image_data)})
            EXCEPT ![i] = Returned(requests[i].result,
                                   requests[i].num_questions)]
    /\ last_set' = Store(last_set, generate_key(requests[i].image_data),
                         requests[i].result)
    /\ UNCHANGED <<hit_count, miss_count, now, get_calls>>
    /\ UNCHANGED outsideCache

\* lines 236-290 of process_gabarito after a success: the comparison with
\* the reference key is put into result, the very dict that process_image
\* returned, and result is answered.  After a hit that dict is the cache's
\* entry (cache_manager.py line 122 returns self.cache[key] itself, line 144
\* stores a copy), and every other thread that got it holds it as well.
AddComparison(i) ==
    /\ requests[i].pc = "returned"
    /\ LET with == comparison_of(requests[i].response.answers,
                                 correct_answers(requests[i].num_questions))
           key == requests[i].alias
       IN  /\ requests' =
                  [j \in DOMAIN requests |->
                      IF j = i
                      THEN Answered(with_comparison(requests[i].response, with))
                      ELSE IF key # 0 /\ requests[j].alias = key
                      THEN [requests[j] EXCEPT
                               !.response = with_comparison(@, with)]
                      ELSE requests[j]]
           /\ cache' = IF key # 0
                       THEN [cache EXCEPT
                                ![key] = with_comparison(cache[key], with)]
                       ELSE cache
    /\ UNCHANGED <<access_times, hit_count, miss_count, now, recency,
                   last_set, get_calls>>
    /\ UNCHANGED outsideCache

\* the clock moves on; it is counted from the first entry stored
Tick ==
    /\ now < MaxTime
    /\ access_times # <<>>
    /\ now' = now + 1
    /\ UNCHANGED <<cache, access_times, hit_count, miss_count, requests,
                   recency, last_set, get_calls>>
    /\ UNCHANGED outsideCache

CacheInit ==
    /\ CallIdle
    /\ pc = "idle"
    /\ AlignIdle
    /\ cache = <<>>
    /\ access_times = <<>>
    /\ hit_count = 0
    /\ miss_count = 0
    /\ now = 0
    /\ requests = [i \in 1..MaxThreads |-> IdleRequest]
    /\ recency = <<>>
    /\ last_set = <<>>
    /\ get_calls = 0

CacheNext ==
    \/ \E i \in 1..MaxThreads : Receive(i)
    \/ \E i \in 1..MaxThreads : CacheGet(i)
    \/ \E i \in 1..MaxThreads : Process(i)
    \/ \E i \in 1..MaxThreads : CacheSet(i)
    \/ \E i \in 1..MaxThreads : AddComparison(i)
    \/ Tick

CacheSpec == CacheInit /\ [][CacheNext]_vars

-----------------------------------------------------------------------------
(* Claims about the cache.                                                 *)

\* C19 as stated: two concurrent requests carrying the same image never both
\* run process_gabarito_image: at most one computation is in progress for a
\* given image fingerprint.
C19_OneComputationPerImage ==
    \A i, j \in DOMAIN requests :
        /\ i # j
        /\ requests[i].pc = "process"
        /\ requests[j].pc = "process"
        => generate_key(requests[i].image_data)
             # generate_key(requests[j].image_data)

\* thread i executes cache_result
SetStep(i) == requests[i].pc = "store" /\ requests'[i].pc = "returned"

Unexpired(key) == ~is_expired(TimeOf(access_times, key), now)
CacheFull ==
    /\ Cardinality(DOMAIN cache) = max_size
    /\ \A k \in DOMAIN cache : Unexpired(k)

\* the step removes exactly the entry gone and stores value under key
EvictsOnly(gone, key, value) ==
    /\ DOMAIN cache' = (DOMAIN cache \ {gone}) \cup {key}
    /\ \A k \in DOMAIN cache \ {gone} : cache'[k] = cache[k]
    /\ cache'[key] = value

\* C20 as stated: when the cache holds max_size unexpired entries, a set with
\* a key not present removes exactly one entry, the one whose last access (its
\* set or its latest successful get) is the oldest, and keeps all others and
\* the new one; a set on a key already present evicts no other entry.
C20_EvictsLeastRecentlyUsed ==
    [][\A i \in DOMAIN requests : SetStep(i) =>
          LET key == generate_key(requests[i].image_data)
          IN  /\ CacheFull /\ key \notin DOMAIN cache =>
                    EvictsOnly(recency[1], key, requests[i].result)
              /\ key \in DOMAIN cache =>
                    \A k \in DOMAIN cache : Unexpired(k) => k \in DOMAIN cache'
      ]_vars

\* process_image returns to thread i
ReturnStep(i) ==
    requests[i].pc \in {"get", "store"} /\ requests'[i].pc = "returned"

\* C29 as stated: the result process_image returns for a request (image,
\* num_questions) is one computed by the pipeline for that same num_questions;
\* a result cached for an image under one question count is never returned
\* for a later request with the same image and another question count.
C29_ResultForSameCount ==
    [][\A i \in DOMAIN requests : ReturnStep(i) =>
          LET computed == Processed[requests[i].image_data,
                                    requests[i].num_questions]
          IN  /\ requests'[i].response.answers = computed.answers
              /\ requests'[i].response.total_questions
                    = computed.total_questions
      ]_vars

\* C30 as stated: a cached entry changes only through set, clear, expiry or
\* eviction; what a caller does to a result it got from process_image or get
\* (/api/process adding the 'comparison' field) never alters the entry stored
\* in the cache, and only successful pipeline results are ever stored.
C30_EntryChangedOnlyByCache ==
    [][/\ \A key \in DOMAIN cache \cap DOMAIN cache' :
              cache'[key] # cache[key] =>
                  \E i \in DOMAIN requests :
                      /\ SetStep(i)
                      /\ generate_key(requests[i].image_data) = key
       /\ \A key \in DOMAIN cache' : cache'[key].success
      ]_vars

\* only successful pipeline results are ever stored
OnlySuccessStored ==
    /\ \A key \in DOMAIN cache : cache[key].success
    /\ \A key \in DOMAIN last_set : last_set[key].success

-----------------------------------------------------------------------------
(* The ImageCache on its own: get, set, clear and stats called in any      *)
(* order, from any thread.  The body of each of the four is one            *)
(* "with self.lock:" block (lines 102, 132, 153, 165), so a call is one    *)
(* step.  requests holds the latest call and what it returned.             *)

\* lines 149-156, ImageCache.clear
clear(c, times) == [cache |-> <<>>, access_times |-> <<>>]

\* round(hit_rate, 4), in ten-thousandths
hit_rate(hits, total) ==
    IF total > 0 THEN RoundHalfEven(10000 * hits, total) ELSE 0

\* lines 158-182, ImageCache.stats at clock value t
stats(c, times, hits, misses, t) ==
    [total_items    |-> Cardinality(DOMAIN c),
     active_items   |-> Cardinality({i \in 1..Len(times) :
                                        t - times[i][2] <= ttl_seconds}),
     max_size       |-> max_size,
     ttl_seconds    |-> ttl_seconds,
     hit_count      |-> hits,
     miss_count     |-> misses,
     total_accesses |-> hits + misses,
     hit_rate       |-> hit_rate(hits, hits + misses)]

\* the images the callers use, one more than the cache holds, and the results
ApiImages == {u \in Uploads : u[2] \in 1..(max_size + 1)}
ApiResults == {SuccessValue(<<"A">>), SuccessValue(<<"B", NAO_MARCADA>>)}

Called(op, image_data, response) ==
    <<[op |-> op, image_data |-> image_data, response |-> response]>>

ApiGet ==
    /\ get_calls < MaxAccesses
    /\ \E image_data \in ApiImages :
          LET g == get(cache, access_times, hit_count, miss_count,
                       image_data, now)
              key == generate_key(image_data)
          IN  /\ cache' = g.cache
              /\ access_times' = g.access_times
              /\ hit_count' = g.hit_count
              /\ miss_count' = g.miss_count
              /\ recency' = IF g.value # NoResult THEN Touch(recency, key)
                            ELSE Forget(recency, {key})
              /\ requests' = Called("get", image_data, g.value)
    /\ get_calls' = get_calls + 1
    /\ UNCHANGED <<now, last_set>>
    /\ UNCHANGED outsideCache

ApiSet ==
    /\ \E image_data \in ApiImages, value \in ApiResults :
          LET s == set(cache, access_times, image_data, value, now)
              key == generate_key(image_data)
          IN  /\ cache' = s.cache
              /\ access_times' = s.access_times
              /\ recency' = Touch(Forget(recency, DOMAIN cache \ DOMAIN s.cache),
                                  key)
              /\ last_set' = Store(last_set, key, value)
              /\ requests' = Called("set", image_data, NoResult)
    /\ UNCHANGED <<hit_count, miss_count, now, get_calls>>
    /\ UNCHANGED outsideCache

ApiClear ==
    /\ cache' = clear(cache, access_times).cache
    /\ access_times' = clear(cache, access_times).access_times
    /\ recency' = <<>>
    /\ last_set' = <<>>
    /\ requests' = Called("clear", <<>>, NoResult)
    /\ UNCHANGED <<hit_count, miss_count, now, get_calls>>
    /\ UNCHANGED outsideCache

ApiStats ==
    /\ requests' = Called("stats", <<>>,
                          stats(cache, access_times, hit_count, miss_count, now))
    /\ UNCHANGED <<cache, access_times, hit_count, miss_count, now, recency,
                   last_set, get_calls>>
    /\ UNCHANGED outsideCache

ApiInit ==
    /\ CallIdle
    /\ pc = "idle"
    /\ AlignIdle
    /\ CacheIdle

ApiNext ==
    \/ ApiGet
    \/ ApiSet
    \/ ApiClear
    \/ ApiStats
    \/ Tick

ApiSpec == ApiInit /\ [][ApiNext]_vars

-----------------------------------------------------------------------------
(* Claims about the ImageCache on its own.                                 *)

\* the step is a call of get, of set; the key and the value returned
GetStep == get_calls' = get_calls + 1
LastKey == generate_key(requests[1].image_data)
LastKey1 == generate_key(requests'[1].image_data)
Returned1 == requests'[1].response

\* C21: a get of a stored image issued more than ttl_seconds after the
\* entry's last access (set or successful get) returns None, removes the entry
\* from cache and from access_times and counts one miss; a get issued within
\* ttl_seconds returns the stored result, sets the entry's access time to the
\* time of the call and counts one hit.
C21_TtlExpiry ==
    [][GetStep /\ LastKey1 \in DOMAIN cache =>
          IF now - TimeOf(access_times, LastKey1) > ttl_seconds
          THEN /\ Returned1 = NoResult
               /\ LastKey1 \notin DOMAIN cache'
               /\ LastKey1 \notin KeysIn(access_times')
               /\ miss_count' = miss_count + 1
               /\ hit_count' = hit_count
          ELSE /\ Returned1 = cache[LastKey1]
               /\ LastKey1 \in DOMAIN cache'
               /\ TimeOf(access_times', LastKey1) = now
               /\ hit_count' = hit_count + 1
               /\ miss_count' = miss_count
      ]_vars

\* a get found the only entry ever stored expired and removed it, after an
\* earlier get had still returned it
C21_Witness ==
    /\ requests # <<>>
    /\ requests[1].op = "get"
    /\ requests[1].response = NoResult
    /\ DOMAIN last_set = {LastKey}
    /\ cache = <<>>
    /\ access_times = <<>>
    /\ hit_count >= 1
    /\ miss_count >= 1

C23_Counters ==
    [][/\ GetStep =>
             IF Returned1 # NoResult
             THEN hit_count' = hit_count + 1 /\ miss_count' = miss_count
             ELSE miss_count' = miss_count + 1 /\ hit_count' = hit_count
       /\ ~GetStep => hit_count' = hit_count /\ miss_count' = miss_count
       /\ hit_count' + miss_count' = get_calls'
       /\ requests' # <<>> /\ requests'[1].op = "stats" =>
             /\ Returned1.hit_count = hit_count
             /\ Returned1.miss_count = miss_count
             /\ Returned1.total_accesses = get_calls
      ]_vars

\* stats called after all the gets, some hits and some misses, the cache
\* empty again and the first entries' lifetime over
C23_Witness ==
    /\ requests # <<>>
    /\ requests[1].op = "stats"
    /\ requests[1].response.total_accesses = MaxAccesses
    /\ requests[1].response.hit_count >= 1
    /\ requests[1].response.miss_count >= 2
    /\ requests[1].response.total_items = 0
    /\ now > ttl_seconds

\* C28: in every state reachable by get, set, clear and stats calls made in
\* any order from any thread, self.cache and self.access_times have the same
\* keys, each once, and the cache holds at most max_size entries.
C28_KeySets ==
    /\ DOMAIN cache = KeysIn(access_times)
    /\ Len(access_times) = Cardinality(KeysIn(access_times))
    /\ Cardinality(DOMAIN cache) <= max_size

\* the cache is full after more images were set than it can hold
C28_Witness ==
    /\ requests # <<>>
    /\ requests[1].op = "set"
    /\ Cardinality(DOMAIN cache) = max_size
    /\ Cardinality(DOMAIN last_set) > max_size
    /\ DOMAIN cache = KeysIn(access_times)
    /\ now = 0

-----------------------------------------------------------------------------
(* /api/compare (server.py lines 374-431): compare_answers, on request     *)
(* bodies that are JSON objects with both fields.  Questions are the keys  *)
(* of the JSON objects, answers their values; the score is kept in         *)
(* hundredths of a percent point (score = 3333 is 33.33).                  *)

\* bound of the request: the number of questions that may appear
MaxQuestions == 3

Questions == 1..MaxQuestions
Answers == {"A", "B", NAO_MARCADA}

\* the JSON objects over the questions: a value for some of them
Sheets == UNION {[qs -> Answers] : qs \in SUBSET Questions}

\* lines 393-431: the response body; an empty answer key is refused (395-396)
compare_answers(student, key) ==
    IF DOMAIN key = {}
    THEN [success |-> FALSE, error |-> <<"compare", 0>>]
    ELSE LET d == details(student, key)
             correct == Cardinality({q \in DOMAIN key : d[q].is_correct})
             total == Cardinality(DOMAIN key)
         IN  [success |-> TRUE,
              score   |-> IF total > 0 THEN RoundHalfEven(10000 * correct, total)
                          ELSE 0,
              correct |-> correct,
              total   |-> total,
              details |-> d]

CompareAnswers ==
    /\ pc = "compare"
    /\ pc' = "done"
    /\ comparison' = compare_answers(student_answers, answer_key)
    /\ UNCHANGED <<student_answers, answer_key>>
    /\ UNCHANGED <<image, num_questions, bubbles, sorted_bubbles,
                   respostas_marcadas, q_index, result, stages, first_result,
                   alignVars, cacheVars, reconVars>>

CompareInit ==
    /\ image = [sheet |-> 0, inks |-> <<>>, missed |-> {}, markers |-> <<>>]
    /\ num_questions = 0
    /\ InitLocals
    /\ first_result = NoResult
    /\ pc = "compare"
    /\ AlignIdle
    /\ CacheIdle
    /\ ReconIdle
    /\ student_answers \in Sheets
    /\ answer_key \in Sheets
    /\ comparison = <<>>

CompareNext == CompareAnswers

CompareSpec == CompareInit /\ [][CompareNext]_vars

Compared == pc = "done" /\ comparison.success

\* C24 as stated: total is the number of questions of answer_key, correct the
\* number of them whose student answer is present and equal to the key's
\* answer (a question missing from student_answers counts as wrong),
\* correct <= total and score = 100 x correct / total rounded to 2 decimals.
C24_MissingIsWrong ==
    Compared =>
        /\ comparison.total = Cardinality(DOMAIN answer_key)
        /\ comparison.correct =
              Cardinality({q \in DOMAIN answer_key :
                              /\ q \in DOMAIN student_answers
                              /\ student_answers[q] = answer_key[q]})
        /\ comparison.correct <= comparison.total
        /\ comparison.score =
              RoundHalfEven(10000 * comparison.correct, comparison.total)

\* C24 amended: total is the number of questions of answer_key, correct the
\* number of them whose student answer equals the key's answer, a question
\* missing from student_answers being taken as answered 'NAO MARCADA' (so it
\* counts as correct when the key's answer is that string); correct <= total
\* and score = 100 x correct / total rounded to 2 decimals.
C24_MissingIsUnmarked ==
    /\ pc = "done" => comparison.success = (DOMAIN answer_key # {})
    /\ Compared =>
        /\ comparison.total = Cardinality(DOMAIN answer_key)
        /\ comparison.correct =
              Cardinality({q \in DOMAIN answer_key :
                  \/ /\ q \in DOMAIN student_answers
                     /\ student_answers[q] = answer_key[q]
                  \/ /\ q \notin DOMAIN student_answers
                     /\ answer_key[q] = NAO_MARCADA})
        /\ comparison.correct <= comparison.total
        /\ 20000 * comparison.correct - comparison.total
              <= 2 * comparison.score * comparison.total
        /\ 2 * comparison.score * comparison.total
              <= 20000 * comparison.correct + comparison.total

\* one of three questions is right because it is missing and the key says
\* unmarked, another is wrong: 33.33
C24_Witness ==
    /\ Compared
    /\ comparison.total = 3
    /\ comparison.correct = 1
    /\ comparison.score = 3333
    /\ \E q \in DOMAIN answer_key :
          /\ q \notin DOMAIN student_answers
          /\ comparison.details[q].is_correct


-----------------------------------------------------------------------------
(* reconstruct_missing_bubbles and the end of detect_bubbles on their own, *)
(* over candidate lists that need not come from a printed sheet            *)
(* (image_processor.py lines 166-187 and 191-292).                         *)

MaxGaps == 3

\* start-to-start distances between neighbours of a row
GapChoices == {0, 1, 10, 15, 25, 30}
GapSeqs == UNION {[1..n -> GapChoices] : n \in 0..MaxGaps}

\* num_questions of detect_bubbles: None and one question
ReconHints == {0, 1}

RECURSIVE RowXs(_, _, _)
RowXs(x, gaps, i) ==
    IF i > Len(gaps) THEN <<x>>
    ELSE <<x>> \o RowXs(x + gaps[i], gaps, i + 1)

\* a candidate that passed the filters of lines 157-162: bounding box, area,
\* and q, a to tell the candidates apart (q >= 1: found in the image)
FoundCandidate(row, i, x, y, w, h) ==
    [x |-> x, y |-> y, w |-> w, h |-> h, area |-> bubble_area,
     q |-> row, a |-> i]

\* the candidates of row number r on the line y, with the given gaps; uneven
\* rows alternate widths 50 and 53 and heights 50 and 52
FoundRow(r, y, gaps, uneven) ==
    LET xs == RowXs(left_margin, gaps, 1)
    IN  [i \in 1..Len(xs) |->
            FoundCandidate(r, i, xs[i], y + 2 * (i % 2),
                           IF uneven /\ i % 2 = 0 THEN 53 ELSE bubble_size,
                           IF uneven /\ i % 2 = 0 THEN 52 ELSE bubble_size)]

Reverse(s) == [i \in 1..Len(s) |-> s[Len(s) + 1 - i]]

\* findContours gives the candidates in no particular order
ReconInputs ==
    {IF backwards THEN Reverse(FoundRow(1, start_y, gaps, uneven) \o second)
                  ELSE FoundRow(1, start_y, gaps, uneven) \o second :
        gaps \in GapSeqs, uneven \in BOOLEAN, backwards \in BOOLEAN,
        second \in {<<>>, FoundRow(2, start_y + question_spacing, <<>>, FALSE)}}

\* lines 166-172: the call of reconstruct_missing_bubbles in its try block
Reconstruct ==
    /\ pc = "reconstruct"
    /\ pc' = "trim"
    /\ reconstructed' = reconstruct_missing_bubbles(found_cnts)
    /\ UNCHANGED <<found_cnts, detected>>
    /\ UNCHANGED <<image, num_questions, bubbles, sorted_bubbles,
                   respostas_marcadas, q_index, result, stages, first_result,
                   alignVars, cacheVars, compareVars>>

\* lines 172-189: what detect_bubbles goes on with, trimmed and checked
TrimAndAccept ==
    /\ pc = "trim"
    /\ pc' = "done"
    /\ LET expected == ExpectedCount(num_questions)
           question_cnts == Trimmed(AfterReconstruction(found_cnts), expected)
       IN  detected' =
              IF CountAccepted(Len(question_cnts), expected, num_questions)
              THEN [raised |-> FALSE, cnts |-> question_cnts]
              ELSE [raised |-> TRUE, cnts |-> <<>>]
    /\ UNCHANGED <<found_cnts, reconstructed>>
    /\ UNCHANGED <<image, num_questions, bubbles, sorted_bubbles,
                   respostas_marcadas, q_index, result, stages, first_result,
                   alignVars, cacheVars, compareVars>>

ReconInit ==
    /\ image = [sheet |-> 0, inks |-> <<>>, missed |-> {}, markers |-> <<>>]
    /\ num_questions \in ReconHints
    /\ InitLocals
    /\ first_result = NoResult
    /\ pc = "reconstruct"
    /\ AlignIdle
    /\ CacheIdle
    /\ CompareIdle
    /\ found_cnts \in ReconInputs
    /\ reconstructed = <<>>
    /\ detected = <<>>

ReconNext == Reconstruct \/ TrimAndAccept

ReconSpec == ReconInit /\ [][ReconNext]_vars


\* reconstruct_missing_bubbles has returned a list
HasReturned == pc \in {"trim", "done"} /\ ~reconstructed.raised

\* the places of the candidates of s that were found in the image
FoundAt(s) == {k \in 1..Len(s) : s[k].q # 0}
SynthesizedAt(s) == {k \in 1..Len(s) : s[k].q = 0}

\* the row, sorted by x, that holds the candidate c
SortedRowOf(cnts, c) ==
    LET rows == RowsOf(cnts)
        r == CHOOSE r \in 1..Len(rows) :
                 \E i \in 1..Len(rows[r]) : rows[r][i] = c
    IN  SortedAsc(rows[r], "x")

\* the synthesized candidate s[j] lies between the found candidates s[l] and
\* s[r], neighbours in a row whose gap exceeds 1.5 x the row's median gap; it
\* is one of round(gap / median) - 1, the (j - l)-th step of the median gap
\* after s[l] (whole pixels), with the row's median width (whole pixels) and
\* the height and top y of s[l]
WellSynthesized(cnts, s, j, l, r) ==
    LET row == SortedRowOf(cnts, s[l])
        median_step2 == Median2(Gaps(row))
        avg_width2 == Median2(Widths(row))
        gap == s[r].x - s[l].x
    IN  /\ Len(row) >= 2
        /\ \E i \in 1..(Len(row) - 1) : row[i] = s[l] /\ row[i + 1] = s[r]
        /\ 2 * GapFactorDen * gap > GapFactorNum * median_step2
        /\ r - l - 1 = RoundHalfEven(2 * gap, median_step2) - 1
        /\ s[j].x = (2 * s[l].x + (j - l) * median_step2) \div 2
        /\ s[j].x < s[r].x
        /\ s[j].w - 1 = avg_width2 \div 2
        /\ s[j].h - 1 = s[l].h
        /\ s[j].y = s[l].y

\* every synthesized candidate of s is well synthesized between the found
\* candidates next to it in s
AllWellSynthesized(cnts, s) ==
    \A j \in SynthesizedAt(s) :
        /\ \E l \in FoundAt(s) : l < j
        /\ \E r \in FoundAt(s) : r > j
        /\ WellSynthesized(cnts, s, j,
               SetMax({l \in FoundAt(s) : l < j}),
               SetMin({r \in FoundAt(s) : r > j}))

\* every pair of neighbours of a row whose gap exceeds 1.5 x the median gap
\* has round(gap / median) - 1 synthesized candidates between them in s
AllGapsFilled(cnts, s) ==
    \A l, r \in FoundAt(s) :
        (/\ l < r
         /\ \A k \in (l + 1)..(r - 1) : k \in SynthesizedAt(s)
         /\ LET row == SortedRowOf(cnts, s[l])
            IN  /\ \E i \in 1..(Len(row) - 1) : row[i] = s[l] /\ row[i + 1] = s[r]
                /\ 2 * GapFactorDen * (s[r].x - s[l].x)
                      > GapFactorNum * Median2(Gaps(row)))
        => r - l - 1 = RoundHalfEven(2 * (s[r].x - s[l].x),
                                     Median2(Gaps(SortedRowOf(cnts, s[l])))) - 1

\* C25 as stated: within each row of at least 2 candidates,
\* reconstruct_missing_bubbles synthesizes candidates only between adjacent
\* pairs whose start-to-start gap exceeds 1.5 x the row's median gap, for such
\* a pair exactly round(gap / median) - 1 of them, evenly spaced, each start x
\* strictly between the neighbours' start x, each with the row's median width
\* and the left neighbour's height and top y.
C25_StrictlyBetween ==
    HasReturned =>
        /\ AllWellSynthesized(found_cnts, reconstructed.cnts)
        /\ AllGapsFilled(found_cnts, reconstructed.cnts)
        /\ \A j \in SynthesizedAt(reconstructed.cnts) :
               reconstructed.cnts[SetMax({l \in FoundAt(reconstructed.cnts) :
                                              l < j})].x
                   < reconstructed.cnts[j].x

\* the same with a start x that may be the left neighbour's own
C25_FromLeftNeighbour ==
    HasReturned =>
        /\ AllWellSynthesized(found_cnts, reconstructed.cnts)
        /\ AllGapsFilled(found_cnts, reconstructed.cnts)

C25_SomeSynthesized ==
    /\ HasReturned
    /\ Cardinality(SynthesizedAt(reconstructed.cnts)) >= 2


\* detect_bubbles has ended after a reconstruction that raised
ErrorLogged == pc = "done" /\ reconstructed.raised

\* C26: when grid reconstruction raises inside detect_bubbles the error is not
\* propagated: detection goes on with exactly the candidates found before the
\* reconstruction, and the trimming to the expected count and the acceptance
\* checks are applied to that list.
C26_ErrorNotPropagated ==
    ErrorLogged =>
        LET expected == ExpectedCount(num_questions)
            kept == Trimmed(found_cnts, expected)
        IN  detected =
               IF CountAccepted(Len(kept), expected, num_questions)
               THEN [raised |-> FALSE, cnts |-> kept]
               ELSE [raised |-> TRUE, cnts |-> <<>>]

\* a reconstruction raised and detect_bubbles returned the 5 candidates found
C26_Witness ==
    /\ ErrorLogged
    /\ ~detected.raised
    /\ Len(found_cnts) = 5
    /\ \A i \in 1..Len(found_cnts) :
           \E k \in 1..Len(detected.cnts) : detected.cnts[k] = found_cnts[i]


\* the places (row, index) of the candidate c in the rows
PlacesIn(rows, c) ==
    {p \in (1..Len(rows)) \X (1..MaxGaps + 2) :
        p[2] <= Len(rows[p[1]]) /\ rows[p[1]][p[2]] = c}

\* the places of the candidate c in the list s
PlacesOf(s, c) == {k \in 1..Len(s) : s[k] = c}

=============================================================================
